---- MODULE Spec2Model ----
(***************************************************************************)
(* The generation job lifecycle of the gateway: the submission endpoint,   *)
(* the job store _GENERATION_RESPONSES, the background task                 *)
(* process_image_generation with its false-failure reconciliation, and the *)
(* read endpoint.  Every await of the Python code is a step boundary: the  *)
(* code between two awaits runs atomically on the single event loop.       *)
(***************************************************************************)
EXTENDS Integers, Sequences, FiniteSets, TLC

VARIABLES
    env,                    \* the scenario: which requests and provider answers occur
    GENERATION_RESPONSES,   \* images.py _GENERATION_RESPONSES: generation id -> record
    tasks,                  \* one process_image_generation run per generation id
    issued,                 \* number of generation ids handed out by uuid4 so far
    http,                   \* the last HTTP response produced by an endpoint
    models,                 \* ModelRegistry.models of a registry object, in insertion order
    call,                   \* the last call made on that registry object and how it ended
    scrape_service,         \* scraper.py scrape_service: the service object, or None
    scrape,                 \* the service method an endpoint is awaiting, and how far it is
    active_connections,     \* websockets.py manager.active_connections, in list order
    sockets                 \* one WebSocket and its websocket_endpoint run per client

vars == <<env, GENERATION_RESPONSES, tasks, issued, http, models, call,
          scrape_service, scrape, active_connections, sockets>>

\* the endpoints build their own registry per request and never touch this one
registry == <<models, call>>

\* the image endpoints and the registry never touch the scraping service or
\* the WebSocket connections
scraper == <<scrape_service, scrape, active_connections, sockets>>

(***************************************************************************)
(* Bounds.                                                                 *)
(***************************************************************************)
\* generation ids that concurrently running jobs may take
MaxJobs == 2
\* entries of the images list of an embedded payload
MaxImages == 2

(***************************************************************************)
(* Values.  An Optional string is the string or None; an Optional number   *)
(* that pydantic keeps >= 1 (upscale_factor) is the number or 0 for None.  *)
(***************************************************************************)
None == "None"

\* Python truthiness of an Optional[str]: None and "" are falsy
Truthy(s) == s \notin {None, ""}

\* Python truthiness of an Optional[int] written as a numeral: None and 0 are falsy
TruthyInt(s) == s \notin {None, "0"}

\* Python truthiness of an Optional[float] (0 stands for None)
TruthyNum(n) == n # 0

(***************************************************************************)
(* schemas/image.py ImageGenerationContext: the fields the endpoints and   *)
(* the background task read, with the schema's defaults.                   *)
(***************************************************************************)
DefaultContext ==
    [ control_image   |-> None,
      control_type    |-> None,
      reference_image |-> None,
      upscale_factor  |-> 0,
      face_enhance    |-> FALSE,
      tiling          |-> FALSE,
      seed            |-> None,
      batch_size      |-> 1,
      image_format    |-> "png" ]

(***************************************************************************)
(* services/model_registry.py: the registry every request builds anew      *)
(* (deps.get_model_registry), holding the two built-in models.             *)
(***************************************************************************)
DefaultModels ==
    << [ model_id     |-> "sd-v1-5",
         capabilities |-> << "text-to-image", "image-to-image" >> ],
       [ model_id     |-> "flux-pro-1.1",
         capabilities |-> << "text-to-image", "image-to-image", "inpainting",
                             "controlnet", "upscaling", "face-enhance",
                             "style-transfer" >> ] >>

Range(s) == { s[k] : k \in DOMAIN s }

\* stop_after_attempt(3) of the retry decorator of register_model
StopAfterAttempt == 3

\* `model.model_id in self.models`
Registered(reg, model_id) == \E k \in DOMAIN reg : reg[k].model_id = model_id

\* the body of register_model, lines 60-65: one attempt
RegisterBody(reg, model) ==
    IF Registered(reg, model.model_id)
    THEN [ raised |-> << "HTTPException 400: already registered" >>, models |-> reg ]
    ELSE [ raised |-> << >>, models |-> Append(reg, model) ]

\* The retry decorator, lines 54-57: no retry predicate is given, so every
\* exception of the body is retried; after the last attempt the decorator
\* raises RetryError, which holds the exception of that attempt.
RECURSIVE Retry(_, _, _)
Retry(reg, model, attempt) ==
    LET r == RegisterBody(reg, model)
    IN  IF r.raised = << >>
        THEN [ attempts |-> attempt, raised |-> << >>, cause |-> << >>, models |-> r.models ]
        ELSE IF attempt < StopAfterAttempt THEN Retry(r.models, model, attempt + 1)
        ELSE [ attempts |-> attempt, raised |-> << "RetryError" >>, cause |-> r.raised,
               models |-> r.models ]

\* ModelRegistry.__init__, lines 9-12, and _load_default_models: the two
\* built-in models are registered into an empty dict
LoadDefaultModels ==
    Retry(Retry(<< >>, DefaultModels[1], 1).models, DefaultModels[2], 1).models

NoCall == [ op |-> "none", model |-> << >>, attempts |-> 0, raised |-> << >>,
            cause |-> << >>, before |-> << >> ]

\* ModelRegistry.get_model: the model registered under model_id, or None (<<>>)
RegistryGet(model_id) ==
    LET hits == { k \in DOMAIN DefaultModels : DefaultModels[k].model_id = model_id }
    IN  IF hits = {} THEN << >> ELSE << DefaultModels[CHOOSE k \in hits : TRUE] >>

\* deps.get_model: raises ValueError when the registry has no such model
get_model(model_id) ==
    LET m == RegistryGet(model_id)
    IN  IF m = << >> THEN [ raised |-> TRUE,  model |-> << >> ]
                     ELSE [ raised |-> FALSE, model |-> m ]

(***************************************************************************)
(* generate_image, lines 62-87: the required capabilities, in the order    *)
(* the code appends them, and the ones the model lacks.                    *)
(***************************************************************************)
RequiredCapabilities(context) ==
    << "text-to-image" >>
    \o (IF Truthy(context.control_image) THEN << "controlnet" >> ELSE << >>)
    \o (IF context.face_enhance THEN << "face-enhance" >> ELSE << >>)
    \o (IF Truthy(context.reference_image) THEN << "style-transfer" >> ELSE << >>)
    \o (IF TruthyNum(context.upscale_factor) THEN << "upscaling" >> ELSE << >>)

\* variant: only the first unmet capability is reported
FirstMissingCapability(required, capabilities) ==
    LET unmet == SelectSeq(required, LAMBDA cap : cap \notin Range(capabilities))
    IN  IF unmet = << >> THEN << >> ELSE << unmet[1] >>

\* [cap for cap in required_capabilities if cap not in model.capabilities]
MissingCapabilities(required, capabilities) ==
    SelectSeq(required, LAMBDA cap : cap \notin Range(capabilities))

\* variant: the control type is never asked for
NoControlTypeCheck(context) == FALSE

\* line 67: a control image without a control type
MissingControlType(context) ==
    Truthy(context.control_image) /\ ~Truthy(context.control_type)

\* context.seed or "random"
SeedOrRandom(seed) == IF TruthyInt(seed) THEN seed ELSE "random"

(***************************************************************************)
(* schemas/image.py ImageGenerationResponse, as the endpoints build it.    *)
(* prompt and style_preset are echoed unchanged from the request into      *)
(* every record and created_at is the wall clock at the write; the model   *)
(* keeps the fields whose value depends on the path taken.                 *)
(***************************************************************************)
\* generate_image, lines 90-103
ProcessingRecord(generation_id, model_id, context) ==
    [ id       |-> generation_id,
      status   |-> "processing",
      images   |-> << >>,
      metadata |-> [ model_id     |-> model_id,
                     seed         |-> SeedOrRandom(context.seed),
                     control_type |-> context.control_type,
                     status       |-> "queued" ] ]

\* process_image_generation, lines 180-192 and 238-250
CompletedRecord(generation_id, model_id, seed, images) ==
    [ id       |-> generation_id,
      status   |-> "completed",
      images   |-> images,
      metadata |-> [ model_id |-> model_id,
                     seed     |-> seed,
                     status   |-> "completed" ] ]

\* variant: the error record says nothing about the error
ErrorRecordWithoutDetail(generation_id, model_id, context, error_str) ==
    [ id       |-> generation_id,
      status   |-> "error",
      images   |-> << >>,
      metadata |-> [ model_id |-> model_id,
                     seed     |-> SeedOrRandom(context.seed),
                     status   |-> "error" ] ]

\* process_image_generation, lines 262-275
ErrorRecord(generation_id, model_id, context, error_str) ==
    [ id       |-> generation_id,
      status   |-> "error",
      images   |-> << >>,
      metadata |-> [ model_id |-> model_id,
                     seed     |-> SeedOrRandom(context.seed),
                     status   |-> "error",
                     error    |-> error_str ] ]

(***************************************************************************)
(* HTTP responses.  body is <<record>> when the response carries a record. *)
(***************************************************************************)
Response(op, model_id, context, generation_id, code, detail, missing, body) ==
    [ op            |-> op,
      model_id      |-> model_id,
      context       |-> context,
      generation_id |-> generation_id,
      code          |-> code,
      detail        |-> detail,
      missing       |-> missing,
      body          |-> body ]

NoResponse == Response("none", None, DefaultContext, 0, 0, "", << >>, << >>)

\* store write: _GENERATION_RESPONSES[generation_id] = response
Put(store, generation_id, response) ==
    [ k \in (DOMAIN store) \cup {generation_id} |->
        IF k = generation_id THEN response ELSE store[k] ]

(***************************************************************************)
(* Provider answers.  A response text is described by what the code reads  *)
(* of it: whether it contains the literals the handler searches for, how   *)
(* json.loads parses it, and the images list and seed of the parsed        *)
(* object.  An entry of the images list is a dict with a url (0: no url or *)
(* an empty one) or something that is no dict.                             *)
(***************************************************************************)
Item(kind, name, url, ops) == [ kind |-> kind, name |-> name, url |-> url, ops |-> ops ]

Text(marker, literal, json, shape, images, seed) ==
    [ marker  |-> marker,    \* contains "Image generation failed:"
      literal |-> literal,   \* contains '"images":'
      json    |-> json,      \* "invalid", "nondict" or "dict"
      shape   |-> shape,     \* value under "images": "absent", "null" or "list"
      images  |-> images,
      seed    |-> seed ]     \* value under "seed", None when the key is absent

NoText == Text(FALSE, FALSE, "invalid", "absent", << >>, None)

\* an exception message: a fixed head followed by a provider text (or none)
Msg(head, text) == [ head |-> head, text |-> text, inner |-> << >> ]

\* variant: the text of parse_error is left out of error_str
ParseFailureBare(msg) ==
    [ head |-> "Failed to parse successful response", text |-> NoText, inner |-> << >> ]

\* f"Failed to parse successful response: {str(parse_error)}", line 258
ParseFailure(msg) ==
    [ head |-> "Failed to parse successful response: ", text |-> NoText, inner |-> << msg >> ]

AttributeErrorSave == Msg("'str' object has no attribute 'save'", NoText)
AttributeErrorGet  == Msg("object has no attribute 'get'", NoText)
TypeErrorIterate   == Msg("'NoneType' object is not iterable", NoText)
JSONDecodeError    == Msg("Expecting value", NoText)
KeyErrorFormat     == Msg("unknown image format", NoText)
UnidentifiedImage  == Msg("cannot identify image file", NoText)
TransportError     == Msg("httpx transport error", NoText)

\* "Image generation failed:" in error_str, line 202
HasFailedMarker(msg) == msg.head = "Image generation failed: " \/ msg.text.marker

\* '"images":' in error_str, line 202
HasImagesLiteral(msg) == msg.text.literal

\* PIL writes the formats it has a plugin for; any other name raises KeyError
Encodable(image_format) == image_format \in {"png", "jpeg", "webp", "gif", "bmp"}

\* a PIL image, as opposed to the str keys a dict yields when iterated
IsImage(img) == img.kind = "image"

\* lines 173-177: the encoded image appended to processed_images
Encoded(img, image_format) ==
    [ image |-> [ url |-> img.url, ops |-> img.ops ], type |-> "base64", format |-> image_format ]

\* FluxClient.generate_image returns a dict with the keys "data" and "meta";
\* `for img in generated_images` walks the keys of that dict
DictKeys == << Item("str", "data", 0, << >>), Item("str", "meta", 0, << >>) >>

(***************************************************************************)
(* One run of process_image_generation.                                    *)
(***************************************************************************)
NewTask(origin, model_id, context) ==
    [ origin    |-> origin,        \* "generate" (background task) or "text2img" (awaited inline)
      model_id  |-> model_id,
      context   |-> context,
      pc        |-> "scheduled",
      path      |-> "normal",      \* "normal": lines 139-197, "reconcile": lines 203-256
      items     |-> << >>,         \* what the current for loop walks
      i         |-> 0,             \* index of the current item
      img       |-> Item("none", "", 0, << >>),
      processed |-> << >>,         \* processed_images
      seed      |-> None,          \* seed of the embedded payload
      exc       |-> << >>,         \* the exception being handled, when one was raised
      failures  |-> << >>,         \* every exception raised during the run
      reply     |-> [ status |-> "none", text |-> NoText ],
                                   \* the provider's answer to the base generation call
      faults    |-> << >>,         \* the fetches and stage calls the provider did not serve
      calls     |-> << >> ]        \* remote calls issued, in order

Call(op, i) == [ op |-> op, item |-> i ]

\* the provider's answer r to the call the run awaits was no success
Fault(t, r) == [ t EXCEPT !.faults = Append(@, [ pc |-> t.pc, item |-> t.i, reply |-> r ]) ]

\* suspend at an awaited remote call
Await(t, pc, op) == [ t EXCEPT !.pc = pc, !.calls = Append(@, Call(op, t.i)) ]

\* an exception leaves the code being run
Raise(t, msg) == [ t EXCEPT !.pc = "raise", !.exc = << msg >>, !.failures = Append(@, msg) ]

\* `if context.face_enhance`, lines 162 and 219
FaceEnhanceRequested(context) == context.face_enhance

\* variant: any factor that is set starts the upscale stage
UpscaleRequestedAnyFactor(context) == TruthyNum(context.upscale_factor)

\* `if context.upscale_factor and context.upscale_factor > 1`, lines 165 and 223
UpscaleRequested(context) ==
    TruthyNum(context.upscale_factor) /\ context.upscale_factor > 1

\* The body of either for loop from the point `at` of the current iteration
\* up to the next await, the end of the loop or an exception.
\*   lines 159-177 (normal) and 210-235 (reconciliation)
RECURSIVE Step(_, _)
Step(t, at) ==
    CASE at = "face" ->
           IF FaceEnhanceRequested(t.context)
           THEN \* FluxClient.enhance_faces: image.save, then the POST
                IF IsImage(t.img) THEN Await(t, "await_face", "face-enhance")
                                  ELSE Raise(t, AttributeErrorSave)
           ELSE Step(t, "upscale")
      [] at = "upscale" ->
           IF UpscaleRequested(t.context)
           THEN \* FluxClient.upscale_image: image.save, then the POST
                IF IsImage(t.img) THEN Await(t, "await_upscale", "upscale")
                                  ELSE Raise(t, AttributeErrorSave)
           ELSE Step(t, "encode")
      [] at = "encode" ->
           IF ~IsImage(t.img) THEN Raise(t, AttributeErrorSave)
           ELSE IF ~Encodable(t.context.image_format) THEN Raise(t, KeyErrorFormat)
           ELSE Step([ t EXCEPT !.processed =
                           Append(@, Encoded(t.img, t.context.image_format)) ], "next")
      [] at = "next" ->
           IF t.i = Len(t.items) THEN [ t EXCEPT !.pc = "complete" ]
           ELSE LET k  == t.i + 1
                    it == t.items[k]
                    u  == [ t EXCEPT !.i = k ]
                IN  IF t.path = "normal" THEN Step([ u EXCEPT !.img = it ], "face")
                    ELSE IF it.kind # "dict" THEN Raise(u, AttributeErrorGet)
                    ELSE IF it.url = 0 THEN Step(u, "next")
                    ELSE Await(u, "await_fetch", "fetch")

\* lines 205-210: parse the embedded payload and enter the loop over its images
Reconcile(t, msg) ==
    LET r == [ t EXCEPT !.path = "reconcile", !.processed = << >>, !.i = 0, !.exc = << >> ]
        text == msg.text
    IN  IF text.json = "invalid" THEN Raise(r, JSONDecodeError)
        ELSE IF text.json = "nondict" THEN Raise(r, AttributeErrorGet)
        ELSE IF text.shape = "null" THEN Raise(r, TypeErrorIterate)
        ELSE Step([ r EXCEPT !.items = IF text.shape = "list" THEN text.images ELSE << >>,
                             !.seed  = text.seed ], "next")

\* variant: no inner try, the exception of the reinterpretation leaves the
\* except block and the run
InnerExceptMissing(t) == [ t EXCEPT !.pc = "escaped" ]

\* variant: the error record keeps the message of the base generation call
InnerExceptOriginal(t) == [ t EXCEPT !.pc = "error", !.exc = << t.failures[1] >> ]

\* except Exception as parse_error, lines 257-258: falls through to the
\* error record with the new error_str
InnerExcept(t) == [ t EXCEPT !.pc = "error", !.exc = << ParseFailure(t.exc[1]) >> ]

\* variant: the markers are looked for in every failure, also in one that
\* the reinterpretation raised
HandleAnyPath(t) ==
    IF t.pc # "raise" THEN t
    ELSE IF HasFailedMarker(t.exc[1]) /\ HasImagesLiteral(t.exc[1])
         THEN LET r == Reconcile(t, t.exc[1])
              IN  IF r.pc = "raise" THEN InnerExcept(r) ELSE r
    ELSE IF t.path = "normal" THEN [ t EXCEPT !.pc = "error" ]
    ELSE InnerExcept(t)

\* The except clauses, lines 199-259: an exception of the normal path is
\* reinterpreted when its message carries both literals; an exception of the
\* reinterpretation is caught by the inner except.
Handle(t) ==
    IF t.pc # "raise" THEN t
    ELSE IF t.path = "normal"
              /\ HasFailedMarker(t.exc[1]) /\ HasImagesLiteral(t.exc[1])
         THEN LET r == Reconcile(t, t.exc[1])
              IN  IF r.pc = "raise" THEN InnerExcept(r) ELSE r
    ELSE IF t.path = "normal" THEN [ t EXCEPT !.pc = "error" ]
    ELSE InnerExcept(t)

\* the code run from a resumption point to the next await or to the end
Run(t, at) == Handle(Step(t, at))

\* variant: the seed of the payload is not looked at
PayloadSeedIgnored(seed) == "random"

\* result.get("seed", "random"), line 246
PayloadSeed(seed) == IF seed = None THEN "random" ELSE seed

\* the record the run writes when it ends, lines 180-195, 238-253, 262-276
TerminalRecord(generation_id, t) ==
    IF t.pc = "complete"
    THEN CompletedRecord(generation_id, t.model_id,
                         IF t.path = "normal" THEN SeedOrRandom(t.context.seed)
                                              ELSE PayloadSeed(t.seed),
                         t.processed)
    ELSE ErrorRecord(generation_id, t.model_id, t.context, t.exc[1])

(***************************************************************************)
(* What the two providers' endpoints may answer.                           *)
(***************************************************************************)
\* the answer to the base generation POST: a status 200 with a body, another
\* status with a text, or no answer at all (timeout, connection error)
Reply(status, text) == [ status |-> status, text |-> text ]

\* the answer to a stage POST (face-enhance, upscale)
PostReplies == { "url", "nourl", "non200", "marked", "raise" }

\* the answer to a GET of an image url
FetchReplies == { "ok", "non200", "notimage", "raise" }

PlainText     == Text(FALSE, FALSE, "invalid", "absent", << >>, None)
BadJsonText   == Text(FALSE, TRUE,  "invalid", "absent", << >>, None)
NonDictText   == Text(FALSE, TRUE,  "nondict", "absent", << >>, None)
NullText      == Text(FALSE, TRUE,  "dict",    "null",   << >>, None)
NestedText    == Text(FALSE, TRUE,  "dict",    "absent", << >>, None)
Payload(images, seed) == Text(FALSE, TRUE, "dict", "list", images, seed)

\* the same object written with a space between the key and its colon
SpacedPayload(images, seed) == Text(FALSE, FALSE, "dict", "list", images, seed)

\* the text of a failed stage POST that itself reads
\* Image generation failed: {"images": [...]}
MarkedText == Text(TRUE, TRUE, "dict", "list", << Item("dict", "", 1, << >>) >>, None)

\* a 200 body: the provider's JSON object with data and meta
OkBody == Text(FALSE, FALSE, "dict", "absent", << >>, None)

\* the entries the k-th place of an images list may hold: a url, no url, no dict
Entries(k) == { Item("dict", "", k, << >>), Item("dict", "", 0, << >>),
                Item("nondict", "", 0, << >>) }

ImageLists ==
    UNION { { s \in [ 1..n -> UNION { Entries(k) : k \in 1..n } ] :
                \A k \in 1..n : s[k] \in Entries(k) } : n \in 0..MaxImages }

\* the lists whose entries all carry a url
UrlLists == { s \in ImageLists : \A k \in DOMAIN s : s[k].kind = "dict" /\ s[k].url # 0 }

(***************************************************************************)
(* Endpoints.                                                              *)
(***************************************************************************)
\* variant: the id the previous request got is handed out again
StaleId == IF issued = 0 THEN 1 ELSE issued

\* str(uuid.uuid4()): an id no earlier request got
FreshId == issued + 1

\* variant: the record is stored before the request is validated
RejectAfterStore(model_id, context, detail, missing) ==
    /\ http' = Response("generate", model_id, context, 0, 400, detail, missing, << >>)
    /\ GENERATION_RESPONSES' =
           Put(GENERATION_RESPONSES, FreshId, ProcessingRecord(FreshId, model_id, context))
    /\ UNCHANGED <<env, tasks, issued>>

\* variant: the handler awaits the run instead of scheduling it
AddTaskAwaited(generation_id, model_id, context) ==
    Put(tasks, generation_id,
        Await(NewTask("generate", model_id, context), "await_generate", "generate"))

\* background_tasks.add_task(process_image_generation, ...), lines 109-114:
\* the task runs after the response has been sent
AddTask(generation_id, model_id, context) ==
    Put(tasks, generation_id, NewTask("generate", model_id, context))

\* raise HTTPException(status_code=400, ...), lines 68-71 and 84-87: the
\* request ends here, before the record is built and stored
Reject(model_id, context, detail, missing) ==
    /\ http' = Response("generate", model_id, context, 0, 400, detail, missing, << >>)
    /\ UNCHANGED <<env, GENERATION_RESPONSES, tasks, issued>>

\* POST /models/{model_id}/generate, images.py lines 50-116
generate_image(model_id, context) ==
    LET dep           == get_model(model_id)
        generation_id == FreshId
        required      == RequiredCapabilities(context)
        missing       == MissingCapabilities(required, dep.model[1].capabilities)
        response      == ProcessingRecord(generation_id, model_id, context)
    IN  IF dep.raised
        THEN /\ http' = Response("generate", model_id, context, 0, 500,
                                 "ValueError: Model not found", << >>, << >>)
             /\ UNCHANGED <<env, GENERATION_RESPONSES, tasks, issued>>
        ELSE IF MissingControlType(context)
        THEN Reject(model_id, context,
                    "control_type must be specified when using control_image", << >>)
        ELSE IF missing # << >>
        THEN Reject(model_id, context, "Model missing required capabilities: ", missing)
        ELSE /\ issued < env.jobs
             /\ issued' = generation_id
             /\ GENERATION_RESPONSES' = Put(GENERATION_RESPONSES, generation_id, response)
             /\ tasks' = AddTask(generation_id, model_id, context)
             /\ http' = Response("generate", model_id, context, generation_id, 200,
                                 "", << >>, << response >>)
             /\ UNCHANGED env

\* variant: a read hands the record out and drops it from the store
ReadAndForget(model_id, generation_id) ==
    /\ http' =
         IF generation_id \notin DOMAIN GENERATION_RESPONSES
         THEN Response("status", model_id, DefaultContext, generation_id, 404,
                       "Generation not found", << >>, << >>)
         ELSE Response("status", model_id, DefaultContext, generation_id, 200,
                       "", << >>, << GENERATION_RESPONSES[generation_id] >>)
    /\ GENERATION_RESPONSES' =
         [ k \in DOMAIN GENERATION_RESPONSES \ {generation_id} |-> GENERATION_RESPONSES[k] ]
    /\ UNCHANGED <<env, tasks, issued>>

\* GET /models/{model_id}/generations/{generation_id}, images.py lines 118-131
get_generation_status(model_id, generation_id) ==
    LET dep == get_model(model_id)
    IN  /\ http' =
             IF dep.raised
             THEN Response("status", model_id, DefaultContext, generation_id, 500,
                           "ValueError: Model not found", << >>, << >>)
             ELSE IF generation_id \notin DOMAIN GENERATION_RESPONSES
             THEN Response("status", model_id, DefaultContext, generation_id, 404,
                           "Generation not found", << >>, << >>)
             ELSE Response("status", model_id, DefaultContext, generation_id, 200,
                           "", << >>, << GENERATION_RESPONSES[generation_id] >>)
        /\ UNCHANGED <<env, GENERATION_RESPONSES, tasks, issued>>

\* what a tool of mcp_server.py returns, in the shape of a response: detail
\* holds the value under "status", body the record the answer was built from
ToolResult(op, context, generation_id, status, body) ==
    Response(op, None, context, generation_id, 200, status, << >>, body)

\* `raise e` in a tool: the call ends with the exception
ToolRaised(op, context, error) ==
    Response(op, None, context, 0, 500, error, << >>, << >>)

\* a run reached an await, or ended: its record is written when it ended, and
\* an endpoint that awaited the run inline answers with what the run returned
\* (None, which is no ImageGenerationResponse); the generate_flux_image tool,
\* mcp_server.py lines 93-95, answers with the id once the awaited run ended
Settle(generation_id, t) ==
    IF t.pc \in { "complete", "error" }
    THEN /\ GENERATION_RESPONSES' =
                Put(GENERATION_RESPONSES, generation_id, TerminalRecord(generation_id, t))
         /\ tasks' = [ tasks EXCEPT ![generation_id] = [ t EXCEPT !.pc = "done" ] ]
         /\ http' = IF t.origin = "generate" THEN http
                    ELSE IF t.origin = "generate_flux_image"
                    THEN ToolResult(t.origin, t.context, generation_id, "processing", << >>)
                    ELSE Response(t.origin, t.model_id, t.context, generation_id, 500,
                                  "response validation: None", << >>, << >>)
         /\ UNCHANGED <<env, issued>>
    ELSE /\ tasks' = [ tasks EXCEPT ![generation_id] = t ]
         /\ UNCHANGED <<env, GENERATION_RESPONSES, issued, http>>

\* POST /text2img/, images.py lines 393-411: awaits process_image_generation
\* under a fresh id, without a record stored first
text_to_image(context) ==
    /\ issued < env.jobs
    /\ issued' = FreshId
    /\ tasks' = Put(tasks, FreshId,
                    Await(NewTask("text2img", "text2img", context),
                          "await_generate", "generate"))
    /\ UNCHANGED <<env, GENERATION_RESPONSES, http>>

\* variant: the tool starts the run and answers without waiting for it
generate_flux_image_unawaited(context, valid) ==
    IF ~valid
    THEN /\ http' = ToolRaised("generate_flux_image", context, "ValueError")
         /\ UNCHANGED <<env, GENERATION_RESPONSES, tasks, issued>>
    ELSE /\ issued < env.jobs
         /\ issued' = FreshId
         /\ tasks' = Put(tasks, FreshId, NewTask("generate_flux_image", "text2img", context))
         /\ http' = ToolResult("generate_flux_image", context, FreshId, "processing", << >>)
         /\ UNCHANGED <<env, GENERATION_RESPONSES>>

\* the generate_flux_image tool, mcp_server.py lines 46-99: the context is
\* built from the arguments (an argument the schema or an enum refuses
\* raises, and the tool raises it again), then process_image_generation is
\* awaited under a fresh id with model_id "text2img"
generate_flux_image(context, valid) ==
    IF ~valid
    THEN /\ http' = ToolRaised("generate_flux_image", context, "ValueError")
         /\ UNCHANGED <<env, GENERATION_RESPONSES, tasks, issued>>
    ELSE /\ issued < env.jobs
         /\ issued' = FreshId
         /\ tasks' = Put(tasks, FreshId,
                         Await(NewTask("generate_flux_image", "text2img", context),
                               "await_generate", "generate"))
         /\ UNCHANGED <<env, GENERATION_RESPONSES, http>>

\* the get_generation_result tool, mcp_server.py lines 101-137
get_generation_result(generation_id) ==
    /\ http' =
         IF generation_id \notin DOMAIN GENERATION_RESPONSES
         THEN ToolResult("get_generation_result", DefaultContext, generation_id,
                         "not_found", << >>)
         ELSE ToolResult("get_generation_result", DefaultContext, generation_id,
                         GENERATION_RESPONSES[generation_id].status,
                         << GENERATION_RESPONSES[generation_id] >>)
    /\ UNCHANGED <<env, GENERATION_RESPONSES, tasks, issued>>

\* variant: only an absent factor is turned down
UpscaleFactorAbsent(context) == ~TruthyNum(context.upscale_factor)

\* `not context.upscale_factor or context.upscale_factor <= 1`, line 486
UpscaleFactorRejected(context) ==
    ~TruthyNum(context.upscale_factor) \/ context.upscale_factor <= 1

\* POST /upscale/, images.py lines 474-504: two checks, then the pipeline is
\* awaited under a fresh id as in text_to_image
upscale(context) ==
    IF ~Truthy(context.control_image)
    THEN /\ http' = Response("upscale", "upscale", context, 0, 400,
                             "control_image is required for upscaling", << >>, << >>)
         /\ UNCHANGED <<env, GENERATION_RESPONSES, tasks, issued>>
    ELSE IF UpscaleFactorRejected(context)
    THEN /\ http' = Response("upscale", "upscale", context, 0, 400,
                             "upscale_factor must be greater than 1", << >>, << >>)
         /\ UNCHANGED <<env, GENERATION_RESPONSES, tasks, issued>>
    ELSE /\ issued < env.jobs
         /\ issued' = FreshId
         /\ tasks' = Put(tasks, FreshId,
                         Await(NewTask("upscale", "upscale", context),
                               "await_generate", "generate"))
         /\ UNCHANGED <<env, GENERATION_RESPONSES, http>>

\* POST /img2img/, images.py lines 413-437: the control image is required;
\* then the pipeline is awaited under a fresh id as in text_to_image
image_to_image(context) ==
    IF ~Truthy(context.control_image)
    THEN /\ http' = Response("img2img", "img2img", context, 0, 400,
                             "control_image is required for image-to-image generation",
                             << >>, << >>)
         /\ UNCHANGED <<env, GENERATION_RESPONSES, tasks, issued>>
    ELSE /\ issued < env.jobs
         /\ issued' = FreshId
         /\ tasks' = Put(tasks, FreshId,
                         Await(NewTask("img2img", "img2img", context),
                               "await_generate", "generate"))
         /\ UNCHANGED <<env, GENERATION_RESPONSES, http>>

\* POST /enhance-face/, lines 506-533: the control image is required; the
\* handler sets context.face_enhance before it awaits the pipeline
enhance_face(context) ==
    IF ~Truthy(context.control_image)
    THEN /\ http' = Response("enhance-face", "face-enhance", context, 0, 400,
                             "control_image is required for face enhancement",
                             << >>, << >>)
         /\ UNCHANGED <<env, GENERATION_RESPONSES, tasks, issued>>
    ELSE /\ issued < env.jobs
         /\ issued' = FreshId
         /\ tasks' = Put(tasks, FreshId,
                         Await(NewTask("enhance-face", "face-enhance",
                                       [ context EXCEPT !.face_enhance = TRUE ]),
                               "await_generate", "generate"))
         /\ UNCHANGED <<env, GENERATION_RESPONSES, http>>

\* POST /style-transfer/, lines 535-565: the control image and the reference
\* image are required
style_transfer(context) ==
    IF ~Truthy(context.control_image)
    THEN /\ http' = Response("style-transfer", "style-transfer", context, 0, 400,
                             "control_image is required for style transfer", << >>, << >>)
         /\ UNCHANGED <<env, GENERATION_RESPONSES, tasks, issued>>
    ELSE IF ~Truthy(context.reference_image)
    THEN /\ http' = Response("style-transfer", "style-transfer", context, 0, 400,
                             "reference_image is required for style transfer", << >>, << >>)
         /\ UNCHANGED <<env, GENERATION_RESPONSES, tasks, issued>>
    ELSE /\ issued < env.jobs
         /\ issued' = FreshId
         /\ tasks' = Put(tasks, FreshId,
                         Await(NewTask("style-transfer", "style-transfer", context),
                               "await_generate", "generate"))
         /\ UNCHANGED <<env, GENERATION_RESPONSES, http>>

\* what reading context.mask_image raises: ImageGenerationContext declares no
\* such field and forbids extra ones (schemas/image.py lines 46-83)
AttributeErrorMask ==
    "'ImageGenerationContext' object has no attribute 'mask_image'"

\* POST /inpainting/, images.py lines 439-472: the control image check, then
\* the mask image check of line 451, whose attribute read raises outside the
\* try block of lines 458-472, so that the request ends in the framework's
\* 500 and the lines after it are never reached
inpainting(context) ==
    /\ http' = IF ~Truthy(context.control_image)
               THEN Response("inpainting", "inpainting", context, 0, 400,
                             "control_image is required for inpainting", << >>, << >>)
               ELSE Response("inpainting", "inpainting", context, 0, 500,
                             AttributeErrorMask, << >>, << >>)
    /\ UNCHANGED <<env, GENERATION_RESPONSES, tasks, issued>>

(***************************************************************************)
(* process_image_generation, images.py lines 133-276, one action per       *)
(* resumption.                                                             *)
(***************************************************************************)
\* the background task starts: FluxClient() and the base generation POST
RunBackgroundTask(j) ==
    /\ tasks[j].pc = "scheduled"
    /\ Settle(j, Await(tasks[j], "await_generate", "generate"))

\* FluxClient.generate_image, flux_client.py lines 55-87
FluxGenerateImage(t, reply) ==
    IF reply.status = "raise" THEN Raise(t, TransportError)
    ELSE IF reply.status # "200"
    THEN Raise(t, Msg("Image generation failed: ", reply.text))
    ELSE IF reply.text.json = "invalid" THEN Raise(t, JSONDecodeError)
    ELSE IF reply.text.json = "nondict" THEN Raise(t, AttributeErrorGet)
    ELSE [ t EXCEPT !.items = DictKeys, !.i = 0 ]

\* the base generation call answers, lines 144-159
GenerateReply(j, reply) ==
    /\ tasks[j].pc = "await_generate"
    /\ LET t == FluxGenerateImage([ tasks[j] EXCEPT !.reply = reply ], reply)
       IN  Settle(j, IF t.pc = "raise" THEN Handle(t) ELSE Run(t, "next"))

\* variant: a payload image whose GET answers another status than 200 fails
\* the run
FetchReplyStrict(j, r) ==
    /\ tasks[j].pc = "await_fetch"
    /\ LET t == tasks[j]
       IN  Settle(j,
             CASE r = "ok"       -> Run([ t EXCEPT !.img = Item("image", "", t.items[t.i].url, << >>) ],
                                        "face")
               [] r = "non200"   -> Handle(Raise(Fault(t, r), TransportError))
               [] r = "notimage" -> Handle(Raise(Fault(t, r), UnidentifiedImage))
               [] r = "raise"    -> Handle(Raise(Fault(t, r), TransportError)))

\* the GET of a payload image answers, lines 214-216
FetchReply(j, r) ==
    /\ tasks[j].pc = "await_fetch"
    /\ LET t == tasks[j]
       IN  Settle(j,
             CASE r = "ok"       -> Run([ t EXCEPT !.img = Item("image", "", t.items[t.i].url, << >>) ],
                                        "face")
               [] r = "non200"   -> Run(Fault(t, r), "next")
               [] r = "notimage" -> Handle(Raise(Fault(t, r), UnidentifiedImage))
               [] r = "raise"    -> Handle(Raise(Fault(t, r), TransportError)))

\* a stage POST answers, flux_client.py lines 102-118 and 138-154
StagePost(t, r, failed, nourl, fetch_pc, fetch_op) ==
    CASE r = "url"    -> Await(t, fetch_pc, fetch_op)
      [] r = "nourl"  -> Handle(Raise(Fault(t, r), Msg(nourl, NoText)))
      [] r = "non200" -> Handle(Raise(Fault(t, r), Msg(failed, PlainText)))
      [] r = "marked" -> Handle(Raise(Fault(t, r), Msg(failed, MarkedText)))
      [] r = "raise"  -> Handle(Raise(Fault(t, r), TransportError))

\* the GET of a stage's result answers, flux_client.py lines 118-122 and 154-158
StageFetch(t, r, stage, nourl, at) ==
    CASE r = "ok"       -> Run([ t EXCEPT !.img.ops = Append(@, stage) ], at)
      [] r = "non200"   -> Handle(Raise(Fault(t, r), Msg(nourl, NoText)))
      [] r = "notimage" -> Handle(Raise(Fault(t, r), UnidentifiedImage))
      [] r = "raise"    -> Handle(Raise(Fault(t, r), TransportError))

FaceReply(j, r) ==
    /\ tasks[j].pc = "await_face"
    /\ Settle(j, StagePost(tasks[j], r, "Face enhancement failed: ",
                           "Failed to get enhanced image URL",
                           "await_face_fetch", "face-fetch"))

FaceFetchReply(j, r) ==
    /\ tasks[j].pc = "await_face_fetch"
    /\ Settle(j, StageFetch(tasks[j], r, "face-enhance",
                            "Failed to get enhanced image URL", "upscale"))

UpscaleReply(j, r) ==
    /\ tasks[j].pc = "await_upscale"
    /\ Settle(j, StagePost(tasks[j], r, "Image upscaling failed: ",
                           "Failed to get upscaled image URL",
                           "await_upscale_fetch", "upscale-fetch"))

UpscaleFetchReply(j, r) ==
    /\ tasks[j].pc = "await_upscale_fetch"
    /\ Settle(j, StageFetch(tasks[j], r, "upscale",
                            "Failed to get upscaled image URL", "encode"))

(***************************************************************************)
(* Scenarios: the requests clients send and the answers the provider       *)
(* gives.  Jobs share nothing but the store, so the scenario of            *)
(* concurrent jobs keeps each job short, and the scenarios that follow     *)
(* one request through validation or one job through its whole pipeline    *)
(* take their inputs from wider sets.                                      *)
(***************************************************************************)
Scenario(jobs, model_ids, contexts, direct, replies, readers) ==
    [ jobs      |-> jobs,        \* generation ids that may be issued
      model_ids |-> model_ids,   \* model ids of POST /models/{id}/generate
      contexts  |-> contexts,    \* request bodies of POST /models/{id}/generate
      direct    |-> direct,      \* request bodies of POST /text2img/
      replies   |-> replies,     \* answers to the base generation call
      readers   |-> readers ]    \* model ids of GET /models/{id}/generations/{job}

\* every combination of the fields the submission endpoint validates
ValidationContexts ==
    { [ DefaultContext EXCEPT !.control_image = ci, !.control_type = ct,
                              !.reference_image = ri, !.face_enhance = fe,
                              !.upscale_factor = uf ] :
        ci \in { None, "aW1n" }, ct \in { None, "canny" },
        ri \in { None, "cmVm" }, fe \in BOOLEAN, uf \in { 0, 2 } }
    \cup { [ DefaultContext EXCEPT !.control_image = "", !.upscale_factor = uf ] :
             uf \in { 0, 2 } }

\* every combination of the fields the pipeline reads
PipelineContexts ==
    { [ DefaultContext EXCEPT !.face_enhance = fe, !.upscale_factor = uf,
                              !.tiling = tl, !.batch_size = 2, !.seed = "7" ] :
        fe \in BOOLEAN, uf \in { 0, 1, 2 }, tl \in BOOLEAN }
    \cup { [ DefaultContext EXCEPT !.image_format = "jpg" ],
           [ DefaultContext EXCEPT !.seed = "0" ] }

BaseReplies ==
    { Reply("raise", NoText), Reply("200", OkBody),
      Reply("200", Text(FALSE, FALSE, "invalid", "absent", << >>, None)),
      Reply("200", Text(FALSE, FALSE, "nondict", "absent", << >>, None)) }
    \cup { Reply("non200", x) : x \in { PlainText, BadJsonText, NonDictText,
                                         NullText, NestedText,
                                         SpacedPayload(<< Item("dict", "", 1, << >>) >>, "42") } }
    \cup { Reply("non200", Payload(images, seed)) :
             images \in ImageLists, seed \in { None, "42" } }

ConcurrentEnv ==
    Scenario(MaxJobs, { "flux-pro-1.1", "no-such-model" },
             { [ DefaultContext EXCEPT !.face_enhance = TRUE, !.upscale_factor = 2 ],
               [ DefaultContext EXCEPT !.control_image = "aW1n" ] },
             { DefaultContext },
             { Reply("200", OkBody), Reply("non200", PlainText),
               Reply("non200", Payload(<< Item("dict", "", 1, << >>) >>, "42")) },
             { "flux-pro-1.1" })

\* the jobs of the termination scenario take every path a run can end by:
\* the provider serves, fails plainly, or fails with an embedded payload
LivenessEnv ==
    Scenario(MaxJobs, { "flux-pro-1.1" },
             { [ DefaultContext EXCEPT !.face_enhance = TRUE, !.upscale_factor = 2 ] },
             { DefaultContext },
             { Reply("200", OkBody), Reply("raise", NoText),
               Reply("non200", Payload(<< Item("dict", "", 1, << >>) >>, "42")) },
             { "flux-pro-1.1" })

ValidationEnv ==
    Scenario(1, { "sd-v1-5", "flux-pro-1.1" }, ValidationContexts, { DefaultContext },
             { Reply("raise", NoText), Reply("non200", PlainText) },
             { "flux-pro-1.1" })

PipelineEnv ==
    Scenario(1, { "flux-pro-1.1" }, PipelineContexts, { DefaultContext },
             BaseReplies, { "flux-pro-1.1", "no-such-model" })

(***************************************************************************)
(* The scraping service, services/scraper.py.  The provider's client       *)
(* answers a call with a completed response, with a response of another    *)
(* status ("pending"), with a completed response whose metadata is null    *)
(* ("malformed"), or by raising.                                           *)
(***************************************************************************)
ProviderAnswers == { "completed", "pending", "malformed", "raise" }

ProviderError == "provider error"
\* `response.get("metadata", {}).get(...)` on a null metadata
NoneTypeGet == "'NoneType' object has no attribute 'get'"
\* str() of the RetryError the retry decorator raises after its last attempt
RetryErrorText == "RetryError[<Future state=finished raised Exception>]"

\* ScrapeGraphService.__init__, lines 27-37: client is what Client(api_key=...)
\* does with a key that is set, "ok" or "raise"
ServiceInit(api_key, client) ==
    IF ~Truthy(api_key)
    THEN [ raised |-> << "Invalid SGAI_API_KEY: SGAI_API_KEY is not set or is empty" >> ]
    ELSE IF client = "raise"
    THEN [ raised |-> << "Invalid SGAI_API_KEY: provider error" >> ]
    ELSE [ raised |-> << >> ]

\* variant: the module binds a service object whatever the constructor did
ModuleInstanceUnguarded(api_key, client) == "ScrapeGraphService"

\* the module level of scraper.py, lines 259-265
ModuleInstance(api_key, client) ==
    IF ServiceInit(api_key, client).raised = << >> THEN "ScrapeGraphService" ELSE None

\* an attribute lookup on the None sentinel
NoneTypeAttribute(name) ==
    CASE name = "search"            -> "'NoneType' object has no attribute 'search'"
      [] name = "extract_content"   -> "'NoneType' object has no attribute 'extract_content'"
      [] name = "markdownify"       -> "'NoneType' object has no attribute 'markdownify'"
      [] name = "analyze_sentiment" -> "'NoneType' object has no attribute 'analyze_sentiment'"
      [] OTHER                      -> "'NoneType' object has no attribute 'summarize'"

\* the dict of a ScrapingResult, or the dict literal a method returns in its
\* place; status and error are the entries of its metadata (None when the
\* metadata has no such entry).  A bare string or provider response that a
\* method returns is held in content.
Result(title, url, content, source, status, error) ==
    [ title |-> title, url |-> url, content |-> content, source |-> source,
      status |-> status, error |-> error ]

Return(value) == [ kind |-> "return", value |-> value, error |-> "" ]
Raised(error) == [ kind |-> "raise", value |-> << >>, error |-> error ]

\* the body of search, lines 42-67: one attempt
SearchBody(r) ==
    IF r = "raise" THEN Raised("Search failed: provider error")
    ELSE IF r = "pending" THEN Return(<< >>)
    ELSE Return(<< Result("query", "", "result", "scrapegraph", None, None) >>)

\* variant: the provider's exception leaves extract_content
ExtractRaises(url, r) ==
    IF r = "raise" THEN Raised("Content extraction failed: provider error")
    ELSE Return(<< Result(url, url, "response", "scrapegraph", "completed", None) >>)

\* the body of extract_content, lines 72-141: one attempt, which returns
\* whatever the provider did
ExtractBody(url, r) ==
    IF r = "raise"
    THEN Return(<< Result(url, url, "", "fallback", "partial", ProviderError) >>)
    ELSE IF r = "malformed"
    THEN Return(<< Result(url, url, "", "error", "failed", NoneTypeGet) >>)
    ELSE IF r = "completed"
    THEN Return(<< Result("page title", url, "result", "scrapegraph", "completed", None) >>)
    ELSE Return(<< Result(url, url, "response", "scrapegraph", "completed", None) >>)

\* variant: the provider's exception leaves markdownify
MarkdownifyRaises(url, r) ==
    IF r = "raise" THEN Raised("Markdownify failed: provider error")
    ELSE IF r = "malformed"
    THEN Return(<< Result(url, url, "", "error", "failed", NoneTypeGet) >>)
    ELSE IF r = "completed"
    THEN Return(<< Result("page title", url, "markdown", "scrapegraph", "completed", None) >>)
    ELSE Return(<< Result(url, url, "response", "scrapegraph", "completed", None) >>)

\* the body of markdownify, lines 151-234, up to the provider's answer: when
\* the provider raises, the method goes on to await extract_content
MarkdownifyBody(url, r) ==
    IF r = "raise" THEN [ kind |-> "fallback", value |-> << >>, error |-> ProviderError ]
    ELSE IF r = "malformed"
    THEN Return(<< Result(url, url, "", "error", "failed", NoneTypeGet) >>)
    ELSE IF r = "completed"
    THEN Return(<< Result("page title", url, "markdown", "scrapegraph", "completed", None) >>)
    ELSE Return(<< Result(url, url, "response", "scrapegraph", "completed", None) >>)

\* lines 159-185: what markdownify returns once the extract_content it awaits
\* has returned, or has raised
Fallback(url, extracted) ==
    IF extracted.kind = "return"
    THEN Result(extracted.value[1].title, url, extracted.value[1].content,
                "fallback", "fallback", ProviderError)
    ELSE Result(url, url, "", "error", "failed", ProviderError)

\* the body of analyze_sentiment, lines 238-243
SentimentBody(r) ==
    IF r = "raise" THEN Raised("Sentiment analysis failed: provider error")
    ELSE Return(<< Result(None, None, "response", "scrapegraph", None, None) >>)

\* the body of summarize, lines 247-257
SummarizeBody(r) ==
    IF r = "raise" THEN Raised("Summarization failed: provider error")
    ELSE Return(<< Result(None, None, "summary", "scrapegraph", None, None) >>)

Body(name, url, r) ==
    CASE name = "search"            -> SearchBody(r)
      [] name = "extract_content"   -> ExtractBody(url, r)
      [] name = "markdownify"       -> MarkdownifyBody(url, r)
      [] name = "analyze_sentiment" -> SentimentBody(r)
      [] OTHER                      -> SummarizeBody(r)

\* the methods that carry the retry decorator (lines 39, 69 and 143)
Retried == { "search", "extract_content", "markdownify" }

\* stop_after_attempt(3) of that decorator
ScraperStopAfterAttempt == 3

\* variant: the decorator stops one attempt later
RetryStopsLate(attempts) == attempts > ScraperStopAfterAttempt

\* whether the decorator gives up after this many attempts
RetryStops(attempts) == attempts >= ScraperStopAfterAttempt

\* a call of a service method: attempts counts the runs of its body and
\* answers lists what the provider did in each call made to it
NoInvocation ==
    [ name |-> "none", url |-> None, pc |-> "idle", attempts |-> 0,
      answers |-> << >>, value |-> << >>, raised |-> << >> ]

Invoke(name, url) ==
    [ NoInvocation EXCEPT !.name = name, !.url = url, !.pc = "calling" ]

\* the provider answers the call the method is waiting for: the body runs to
\* its end, and the decorator, if there is one, decides what a raise becomes
Attempt(o, r) ==
    LET seen == Append(o.answers, r)
        b    == Body(o.name, o.url, r)
        n    == o.attempts + 1
    IN  IF o.pc = "fallback"
        THEN [ o EXCEPT !.pc = "returned", !.answers = seen,
                        !.value = << Fallback(o.url, ExtractBody(o.url, r)) >> ]
        ELSE IF b.kind = "return"
        THEN [ o EXCEPT !.pc = "returned", !.attempts = n, !.answers = seen,
                        !.value = b.value ]
        ELSE IF b.kind = "fallback"
        THEN [ o EXCEPT !.pc = "fallback", !.attempts = n, !.answers = seen ]
        ELSE IF o.name \notin Retried
        THEN [ o EXCEPT !.pc = "raised", !.attempts = n, !.answers = seen,
                        !.raised = << b.error >> ]
        ELSE IF RetryStops(n)
        THEN [ o EXCEPT !.pc = "raised", !.attempts = n, !.answers = seen,
                        !.raised = << RetryErrorText >> ]
        ELSE [ o EXCEPT !.attempts = n, !.answers = seen ]

(***************************************************************************)
(* The WebSocket endpoint, endpoints/websockets.py.  A socket is "new"     *)
(* until it is accepted, then "open"; "closed" once its client has gone,   *)
(* and "aborted" once its handler has ended with an exception.  out lists  *)
(* what the handler sent to its client since it read the client's last     *)
(* message, notices the clients whose disconnect notice reached it.        *)
(***************************************************************************)
NewSocket ==
    [ state |-> "new", pc |-> "idle", got |-> "none", out |-> << >>, notices |-> {},
      op |-> NoInvocation, i |-> 0, audience |-> {} ]

Started == [ type |-> "status", text |-> "started" ]
ResultMessage == [ type |-> "result", text |-> "completed" ]
ErrorMessage(e) == [ type |-> "error", text |-> e ]

\* what the client may send: a scraping context as JSON, or a text that
\* json.loads or ScrapingContext refuses
Messages == { "context", "malformed" }

\* websocket.send_json to the handler's own client; a send to a client that
\* has gone reaches nobody, and whether it is dropped or raises, the handler
\* next learns of the disconnect
SendJson(sk, message) ==
    IF sk.state = "open" THEN [ sk EXCEPT !.out = Append(@, message) ] ELSE sk

\* ConnectionManager.connect, lines 14-16
connect(c) ==
    /\ sockets[c].pc = "idle"
    /\ active_connections' = Append(active_connections, c)
    /\ sockets' = [ sockets EXCEPT ![c].state = "open", ![c].pc = "receive" ]

\* the client goes away; its handler learns of it at its next receive
close(c) ==
    /\ sockets[c].state = "open"
    /\ sockets' = [ sockets EXCEPT ![c].state = "closed" ]
    /\ UNCHANGED active_connections

\* websocket_endpoint, lines 32-44: a message is read and parsed outside the
\* inner try, so a message that does not parse ends the handler with its
\* exception, the connection still listed; otherwise started is sent and
\* search is called, on the service or on None
receive(c, data) ==
    /\ sockets[c].pc = "receive"
    /\ sockets[c].state = "open"
    /\ UNCHANGED active_connections
    /\ LET read    == [ sockets[c] EXCEPT !.got = data, !.out = << >> ]
           started == SendJson(read, Started)
       IN  sockets' =
             [ sockets EXCEPT ![c] =
                 IF data = "malformed"
                 THEN [ read EXCEPT !.pc = "crashed", !.state = "aborted" ]
                 ELSE IF scrape_service = None
                 THEN SendJson(started, ErrorMessage(NoneTypeAttribute("search")))
                 ELSE [ started EXCEPT !.pc = "search", !.op = Invoke("search", None) ] ]

\* lines 44-73: the provider answers the search; an empty result list is
\* sent as the result, a raise as an error, and for a result the handler
\* goes on to extract_content(result["url"])
search_answer(c, r) ==
    /\ sockets[c].pc = "search"
    /\ UNCHANGED active_connections
    /\ LET o  == Attempt(sockets[c].op, r)
           sk == [ sockets[c] EXCEPT !.op = o ]
       IN  sockets' =
             [ sockets EXCEPT ![c] =
                 IF o.pc = "raised"
                 THEN [ SendJson(sk, ErrorMessage(o.raised[1])) EXCEPT !.pc = "receive" ]
                 ELSE IF o.pc # "returned" THEN sk
                 ELSE IF o.value = << >>
                 THEN [ SendJson(sk, ResultMessage) EXCEPT !.pc = "receive" ]
                 ELSE [ sk EXCEPT !.pc = "extract",
                                  !.op = Invoke("extract_content", o.value[1].url) ] ]

\* lines 49-50: extract_content returns a dict with the keys title, url,
\* content and metadata, and content["text"] raises KeyError, which the
\* inner except sends as an error
extract_answer(c, r) ==
    /\ sockets[c].pc = "extract"
    /\ UNCHANGED active_connections
    /\ LET o  == Attempt(sockets[c].op, r)
           sk == [ sockets[c] EXCEPT !.op = o ]
       IN  sockets' =
             [ sockets EXCEPT ![c] =
                 IF o.pc = "raised"
                 THEN [ SendJson(sk, ErrorMessage(o.raised[1])) EXCEPT !.pc = "receive" ]
                 ELSE IF o.pc # "returned" THEN sk
                 ELSE [ SendJson(sk, ErrorMessage("'text'")) EXCEPT !.pc = "receive" ] ]

\* ConnectionManager.broadcast, lines 21-23, resumed with its list iterator
\* at position i: the loop ends when the list, as it is now, has no item at
\* that position; otherwise the item there is sent the notice and the
\* handler waits in that send.  A send to a socket that is no longer open is
\* dropped or raises, and a raise ends the handler.
broadcast(c, socks, connections, i) ==
    IF i >= Len(connections)
    THEN sockets' = [ socks EXCEPT ![c].pc = "done" ]
    ELSE LET to == connections[i + 1]
             on == [ socks EXCEPT ![c].pc = "broadcast", ![c].i = i + 1 ]
         IN  IF socks[to].state = "open"
             THEN sockets' = [ on EXCEPT ![to].notices = @ \cup { c } ]
             ELSE \/ sockets' = on
                  \/ sockets' = [ on EXCEPT ![c].pc = "failed", ![c].state = "aborted" ]

\* variant of disconnect that leaves the list as it is
disconnect_none(connections, c) == connections

\* ConnectionManager.disconnect, lines 18-19: list.remove
disconnect(connections, c) == SelectSeq(connections, LAMBDA x : x # c)

\* lines 75-81: receive_text raises WebSocketDisconnect; the connection is
\* removed and the broadcast begins.  audience records who was listed then.
disconnected(c) ==
    /\ sockets[c].pc = "receive"
    /\ sockets[c].state = "closed"
    /\ LET connections == disconnect(active_connections, c)
       IN  /\ active_connections' = connections
           /\ broadcast(c, [ sockets EXCEPT ![c].audience = Range(connections) ],
                        connections, 0)

\* the send the broadcast was waiting in has ended
broadcast_resumed(c) ==
    /\ sockets[c].pc = "broadcast"
    /\ UNCHANGED active_connections
    /\ broadcast(c, sockets, active_connections, sockets[c].i)

(***************************************************************************)
(* Specifications.                                                         *)
(***************************************************************************)
\* the image gateway after startup
Gateway(e) ==
    /\ env = e
    /\ GENERATION_RESPONSES = << >>
    /\ tasks = << >>
    /\ issued = 0
    /\ http = NoResponse
    /\ models = LoadDefaultModels
    /\ call = NoCall

\* the scraping side after import: the service instance, no call, no
\* connection, and the clients that may connect
Scraper(api_key, client, clients) ==
    /\ scrape_service = ModuleInstance(api_key, client)
    /\ scrape = NoInvocation
    /\ active_connections = << >>
    /\ sockets = [ c \in 1..clients |-> NewSocket ]

Start(e) ==
    /\ Gateway(e)
    /\ Scraper(None, "ok", 0)

Submit ==
    /\ \E m \in env.model_ids, c \in env.contexts : generate_image(m, c)
    /\ UNCHANGED <<registry, scraper>>

Read ==
    /\ \E m \in env.readers, g \in 1..env.jobs : get_generation_status(m, g)
    /\ UNCHANGED <<registry, scraper>>

Direct ==
    /\ \E c \in env.direct : text_to_image(c)
    /\ UNCHANGED <<registry, scraper>>

Background ==
    /\ \E j \in DOMAIN tasks : RunBackgroundTask(j)
    /\ UNCHANGED <<registry, scraper>>

BaseAnswer ==
    /\ \E j \in DOMAIN tasks, r \in env.replies : GenerateReply(j, r)
    /\ UNCHANGED <<registry, scraper>>

PayloadFetch ==
    /\ \E j \in DOMAIN tasks, r \in FetchReplies : FetchReply(j, r)
    /\ UNCHANGED <<registry, scraper>>

FacePost ==
    /\ \E j \in DOMAIN tasks, r \in PostReplies : FaceReply(j, r)
    /\ UNCHANGED <<registry, scraper>>

FaceFetch ==
    /\ \E j \in DOMAIN tasks, r \in FetchReplies : FaceFetchReply(j, r)
    /\ UNCHANGED <<registry, scraper>>

UpscalePost ==
    /\ \E j \in DOMAIN tasks, r \in PostReplies : UpscaleReply(j, r)
    /\ UNCHANGED <<registry, scraper>>

UpscaleFetch ==
    /\ \E j \in DOMAIN tasks, r \in FetchReplies : UpscaleFetchReply(j, r)
    /\ UNCHANGED <<registry, scraper>>

\* a step of some run of process_image_generation
TaskStep ==
    \/ Background
    \/ BaseAnswer
    \/ PayloadFetch
    \/ FacePost
    \/ FaceFetch
    \/ UpscalePost
    \/ UpscaleFetch

Next ==
    \/ Submit
    \/ Read
    \/ Direct
    \/ TaskStep

Init == Start(ConcurrentEnv)

Spec == Init /\ [][Next]_vars

\* one job's steps, for the fairness of the event loop: a task that can run
\* is run, and a remote call that is awaited is answered
JobStep(j) ==
    /\ j \in DOMAIN tasks
    /\ \/ RunBackgroundTask(j)
       \/ \E r \in env.replies : GenerateReply(j, r)
       \/ \E r \in FetchReplies : FetchReply(j, r) \/ FaceFetchReply(j, r)
                                    \/ UpscaleFetchReply(j, r)
       \/ \E r \in PostReplies : FaceReply(j, r) \/ UpscaleReply(j, r)
    /\ UNCHANGED <<registry, scraper>>

InitLiveness == Start(LivenessEnv)

\* reads and the inline endpoints write neither a scheduled job's record nor
\* its run, so the termination scenario leaves them out
NextLiveness ==
    \/ Submit
    \/ TaskStep

FairSpec ==
    InitLiveness /\ [][NextLiveness]_vars /\ \A j \in 1..MaxJobs : WF_vars(JobStep(j))

InitValidation == Start(ValidationEnv)

\* the provider of the validation scenario serves no generation, so no run
\* gets past the base call
NextValidation ==
    \/ Submit
    \/ Read
    \/ Direct
    \/ Background
    \/ BaseAnswer

SpecValidation == InitValidation /\ [][NextValidation]_vars

InitPipeline == Start(PipelineEnv)

SpecPipeline == InitPipeline /\ [][Next]_vars

(***************************************************************************)
(* The model catalog: GET /models/{model_id}, and the operations of a      *)
(* ModelRegistry object.  No endpoint registers or unregisters a model;    *)
(* the operations are applied to the registry object `models` directly.    *)
(***************************************************************************)
\* GET /models/{model_id}, images.py lines 43-48
get_model_info(model_id) ==
    LET dep == get_model(model_id)
    IN  /\ http' =
             IF dep.raised
             THEN Response("model", model_id, DefaultContext, 0, 500,
                           "ValueError: Model not found", << >>, << >>)
             ELSE Response("model", model_id, DefaultContext, 0, 200, "", << >>, dep.model)
        /\ UNCHANGED <<env, GENERATION_RESPONSES, tasks, issued>>

\* variant: every request is handed the one registry object
SharedRegistry == models

\* deps.get_model_registry, lines 7-9: every request is handed a registry
\* built for it, into which the constructor has registered the built-ins
get_model_registry == LoadDefaultModels

\* GET /models, images.py lines 36-41: list(self.models.values())
list_models ==
    /\ http' = Response("models", None, DefaultContext, 0, 200, "", << >>,
                        get_model_registry)
    /\ UNCHANGED <<env, GENERATION_RESPONSES, tasks, issued>>

\* ModelRegistry.register_model under its retry decorator, lines 54-65
register_model(model) ==
    LET r == Retry(models, model, 1)
    IN  /\ models' = r.models
        /\ call' = [ op |-> "register", model |-> << model >>, attempts |-> r.attempts,
                     raised |-> r.raised, cause |-> r.cause, before |-> models ]

\* ModelRegistry.unregister_model, lines 75-82
unregister_model(model_id) ==
    /\ models' = SelectSeq(models, LAMBDA x : x.model_id # model_id)
    /\ call' = [ op |-> "unregister",
                 model |-> << [ model_id |-> model_id, capabilities |-> << >> ] >>,
                 attempts |-> 1,
                 raised |-> IF Registered(models, model_id) THEN << >>
                            ELSE << "HTTPException 404: not found" >>,
                 cause |-> << >>, before |-> models ]

\* the models a caller may hand to register_model: the built-in ones, a
\* different model under a built-in id, and two new ones
Candidates ==
    Range(DefaultModels)
    \cup { [ model_id |-> "sd-v1-5", capabilities |-> << "inpainting" >> ],
           [ model_id |-> "custom-a", capabilities |-> << "text-to-image" >> ],
           [ model_id |-> "custom-b", capabilities |-> << "upscaling" >> ] }

CatalogEnv ==
    Scenario(1, { "sd-v1-5", "flux-pro-1.1", "no-such-model" }, { DefaultContext },
             { DefaultContext }, { Reply("raise", NoText) },
             { "flux-pro-1.1", "no-such-model" })

ModelInfo ==
    /\ \E m \in env.model_ids : get_model_info(m)
    /\ UNCHANGED <<registry, scraper>>

Register ==
    /\ \E model \in Candidates : register_model(model)
    /\ UNCHANGED <<env, GENERATION_RESPONSES, tasks, issued, http, scraper>>

Unregister ==
    /\ \E model \in Candidates : unregister_model(model.model_id)
    /\ UNCHANGED <<env, GENERATION_RESPONSES, tasks, issued, http, scraper>>

ListModels ==
    /\ list_models
    /\ UNCHANGED <<registry, scraper>>

InitCatalog == Start(CatalogEnv)

NextCatalog ==
    \/ ModelInfo
    \/ ListModels
    \/ Submit
    \/ Read
    \/ Register
    \/ Unregister

SpecCatalog == InitCatalog /\ [][NextCatalog]_vars

(***************************************************************************)
(* The convenience endpoints, which await the pipeline inline.             *)
(***************************************************************************)
\* request bodies with and without a control image and an upscale factor
EntryContexts ==
    { [ DefaultContext EXCEPT !.control_image = ci, !.upscale_factor = uf,
                              !.reference_image = ri ] :
        ci \in { None, "aW1n" }, uf \in { 0, 1, 2 }, ri \in { None, "cmVm" } }

EntryEnv ==
    Scenario(1, { "flux-pro-1.1" }, { DefaultContext }, EntryContexts,
             { Reply("200", OkBody), Reply("raise", NoText),
               Reply("non200", Payload(<< Item("dict", "", 1, << >>) >>, "42")) },
             { "flux-pro-1.1" })

Upscale ==
    /\ \E c \in env.direct : upscale(c)
    /\ UNCHANGED <<registry, scraper>>

Inpainting ==
    /\ \E c \in env.direct : inpainting(c)
    /\ UNCHANGED <<registry, scraper>>

ImageToImage ==
    /\ \E c \in env.direct : image_to_image(c)
    /\ UNCHANGED <<registry, scraper>>

EnhanceFace ==
    /\ \E c \in env.direct : enhance_face(c)
    /\ UNCHANGED <<registry, scraper>>

StyleTransfer ==
    /\ \E c \in env.direct : style_transfer(c)
    /\ UNCHANGED <<registry, scraper>>

InitEntry == Start(EntryEnv)

NextEntry ==
    \/ Direct
    \/ Upscale
    \/ Inpainting
    \/ ImageToImage
    \/ EnhanceFace
    \/ StyleTransfer
    \/ FacePost
    \/ FaceFetch
    \/ Read
    \/ BaseAnswer
    \/ PayloadFetch
    \/ UpscalePost
    \/ UpscaleFetch

SpecEntry == InitEntry /\ [][NextEntry]_vars

(***************************************************************************)
(* The image tools of mcp_server.py, beside jobs submitted over HTTP.       *)
(***************************************************************************)
ToolsEnv ==
    Scenario(2, { "flux-pro-1.1" }, { DefaultContext },
             { DefaultContext, [ DefaultContext EXCEPT !.seed = "7" ] },
             { Reply("200", OkBody), Reply("raise", NoText),
               Reply("non200", Payload(<< Item("dict", "", 1, << >>) >>, "42")) },
             { "flux-pro-1.1" })

GenerateFluxImage ==
    /\ \E c \in env.direct, valid \in BOOLEAN : generate_flux_image(c, valid)
    /\ UNCHANGED <<registry, scraper>>

GetGenerationResult ==
    /\ \E g \in 1..env.jobs : get_generation_result(g)
    /\ UNCHANGED <<registry, scraper>>

InitTools == Start(ToolsEnv)

NextTools ==
    \/ GenerateFluxImage
    \/ GetGenerationResult
    \/ Submit
    \/ Background
    \/ BaseAnswer
    \/ PayloadFetch

SpecTools == InitTools /\ [][NextTools]_vars

(***************************************************************************)
(* The scraping endpoints, endpoints/scrape.py, and the WebSocket clients. *)
(***************************************************************************)
\* clients that may connect to /ws/scrape
MaxClients == 3

Endpoints == { "search", "extract_content", "analyze_sentiment", "summarize" }

Urls == { "https://a.example", "https://b.example" }

\* the four endpoints, lines 18-48: `return await scrape_service.<name>(...)`
\* inside a try whose except turns every exception into a 500 that carries
\* str(e); on the None sentinel the attribute lookup is what raises
scrape_endpoint(name, url) ==
    /\ scrape.pc \notin { "calling", "fallback" }
    /\ IF scrape_service = None
       THEN /\ http' = Response(name, None, DefaultContext, 0, 500,
                                NoneTypeAttribute(name), << >>, << >>)
            /\ scrape' = NoInvocation
       ELSE /\ scrape' = Invoke(name, url)
            /\ UNCHANGED http

\* markdownify has no endpoint: a caller that holds the service calls it
markdownify(url) ==
    /\ scrape.pc \notin { "calling", "fallback" }
    /\ scrape_service # None
    /\ scrape' = Invoke("markdownify", url)
    /\ UNCHANGED http

\* the provider answers the call in flight; when the method has returned or
\* raised, its endpoint answers
provider_answer(r) ==
    /\ scrape.pc \in { "calling", "fallback" }
    /\ LET o == Attempt(scrape, r)
       IN  /\ scrape' = o
           /\ http' = IF o.name \notin Endpoints \/ o.pc \notin { "returned", "raised" }
                      THEN http
                      ELSE IF o.pc = "returned"
                      THEN Response(o.name, None, DefaultContext, 0, 200, "", << >>, o.value)
                      ELSE Response(o.name, None, DefaultContext, 0, 500, o.raised[1],
                                    << >>, << >>)

\* settings.SGAI_API_KEY and what Client() does with it: no key, a key the
\* provider's client refuses, a key it accepts
Credentials ==
    { [ SGAI_API_KEY |-> None,       client |-> "ok" ],
      [ SGAI_API_KEY |-> "sgai-key", client |-> "raise" ],
      [ SGAI_API_KEY |-> "sgai-key", client |-> "ok" ] }

ScrapeEnv(credential, clients, answers) ==
    [ SGAI_API_KEY |-> credential.SGAI_API_KEY, client |-> credential.client,
      clients |-> clients, answers |-> answers ]

ScrapeRequest ==
    /\ \E name \in Endpoints : \E url \in IF name = "extract_content" THEN Urls ELSE { None } :
          scrape_endpoint(name, url)
    /\ UNCHANGED <<env, GENERATION_RESPONSES, tasks, issued, registry,
                   scrape_service, active_connections, sockets>>

Markdownify ==
    /\ \E url \in Urls : markdownify(url)
    /\ UNCHANGED <<env, GENERATION_RESPONSES, tasks, issued, registry,
                   scrape_service, active_connections, sockets>>

ProviderAnswer ==
    /\ \E r \in env.answers : provider_answer(r)
    /\ UNCHANGED <<env, GENERATION_RESPONSES, tasks, issued, registry,
                   scrape_service, active_connections, sockets>>

\* what a step of a WebSocket handler or client leaves alone
SocketFrame ==
    UNCHANGED <<env, GENERATION_RESPONSES, tasks, issued, http, registry,
                scrape_service, scrape>>

Connect == (\E c \in DOMAIN sockets : connect(c)) /\ SocketFrame

Close == (\E c \in DOMAIN sockets : close(c)) /\ SocketFrame

Receive == (\E c \in DOMAIN sockets, data \in Messages : receive(c, data)) /\ SocketFrame

SearchAnswer ==
    (\E c \in DOMAIN sockets, r \in env.answers : search_answer(c, r)) /\ SocketFrame

ExtractAnswer ==
    (\E c \in DOMAIN sockets, r \in env.answers : extract_answer(c, r)) /\ SocketFrame

Disconnected == (\E c \in DOMAIN sockets : disconnected(c)) /\ SocketFrame

BroadcastResumed == (\E c \in DOMAIN sockets : broadcast_resumed(c)) /\ SocketFrame

\* the endpoints and one WebSocket client, under every credential
InitScrape ==
    \E credential \in Credentials :
        /\ Gateway(ScrapeEnv(credential, 1, ProviderAnswers))
        /\ Scraper(credential.SGAI_API_KEY, credential.client, 1)

NextScrape ==
    \/ ScrapeRequest
    \/ Markdownify
    \/ ProviderAnswer
    \/ Connect
    \/ Close
    \/ Receive
    \/ SearchAnswer
    \/ ExtractAnswer
    \/ Disconnected

SpecScrape == InitScrape /\ [][NextScrape]_vars

\* the WebSocket clients alone
SocketEnv ==
    ScrapeEnv([ SGAI_API_KEY |-> "sgai-key", client |-> "ok" ], MaxClients,
              { "pending" })

InitSocket ==
    /\ Gateway(SocketEnv)
    /\ Scraper(SocketEnv.SGAI_API_KEY, SocketEnv.client, SocketEnv.clients)

NextSocket ==
    \/ Connect
    \/ Close
    \/ Receive
    \/ SearchAnswer
    \/ Disconnected
    \/ BroadcastResumed

SpecSocket == InitSocket /\ [][NextSocket]_vars

(***************************************************************************)
(* Properties.                                                             *)
(***************************************************************************)
Terminal == { "completed", "error" }

\* C1: for every job identifier the stored record's status changes only
\* processing -> completed or processing -> error, and once a record is
\* completed or error no step of any operation changes that record.
C1_StatusMachine ==
    [][ \A g \in DOMAIN GENERATION_RESPONSES :
          /\ g \in DOMAIN GENERATION_RESPONSES'
          /\ \/ GENERATION_RESPONSES'[g] = GENERATION_RESPONSES[g]
             \/ /\ GENERATION_RESPONSES[g].status = "processing"
                /\ GENERATION_RESPONSES'[g].status \in Terminal ]_vars

\* two jobs that went different ways, the second ending after the first
C1_Witness ==
    \E g, h \in DOMAIN GENERATION_RESPONSES :
        /\ GENERATION_RESPONSES[g].status = "completed"
        /\ GENERATION_RESPONSES[h].status = "error"
        /\ tasks[g].origin = "generate" /\ tasks[h].origin = "generate"

\* C2: an accepted POST /models/{id}/generate stores, under a fresh id, a
\* record with status processing and no images, schedules one background
\* task for that id and answers with that record while the task has not
\* started: no remote call of the job has been issued when the response is
\* produced.
C2_AcceptedSubmission ==
    [][ (issued' # issued /\ http'.op = "generate" /\ http' # http) =>
          LET g == issued'
          IN  /\ g \notin DOMAIN GENERATION_RESPONSES
              /\ g \notin DOMAIN tasks
              /\ GENERATION_RESPONSES'[g].id = g
              /\ GENERATION_RESPONSES'[g].status = "processing"
              /\ GENERATION_RESPONSES'[g].images = << >>
              /\ http'.code = 200
              /\ http'.generation_id = g
              /\ http'.body = << GENERATION_RESPONSES'[g] >>
              /\ DOMAIN tasks' = DOMAIN tasks \cup {g}
              /\ tasks'[g].pc = "scheduled"
              /\ tasks'[g].calls = << >>
              /\ \A h \in DOMAIN tasks : tasks'[h] = tasks[h] ]_vars

\* the response to an accepted submission is out and its task has not started
C2_Witness ==
    /\ http.op = "generate" /\ http.code = 200
    /\ http.generation_id \in DOMAIN tasks
    /\ tasks[http.generation_id].pc = "scheduled"
    /\ GENERATION_RESPONSES[http.generation_id].status = "processing"
    /\ \E h \in DOMAIN tasks : tasks[h].calls # << >>

\* the request of the last response went to a registered model
ToRegisteredModel == \E k \in DOMAIN DefaultModels : DefaultModels[k].model_id = http.model_id

\* the request carries a control image and no control type
ControlImageAlone(context) ==
    /\ context.control_image \notin { None, "" }
    /\ context.control_type = None

\* C3: a request to POST /models/{id}/generate (of a registered model) that
\* carries a control image and no control type is answered synchronously
\* with a 400 whose detail mentions control_type, and the step that answers
\* it stores nothing, schedules nothing and issues no remote call.
C3_ControlTypeRequired ==
    [][ (http' # http /\ http'.op = "generate"
           /\ \E k \in DOMAIN DefaultModels : DefaultModels[k].model_id = http'.model_id
           /\ ControlImageAlone(http'.context)) =>
          /\ http'.code = 400
          /\ http'.detail = "control_type must be specified when using control_image"
          /\ UNCHANGED <<GENERATION_RESPONSES, tasks, issued>> ]_vars

\* such a request was rejected while a job was in the store
C3_Witness ==
    /\ http.op = "generate" /\ ControlImageAlone(http.context)
    /\ http.code = 400
    /\ http.model_id = "flux-pro-1.1"
    /\ DOMAIN GENERATION_RESPONSES # {}

\* the required capabilities of a request, as the specification lists them
RequiredSet(context) ==
    { "text-to-image" }
    \cup (IF context.control_image \notin { None, "" } THEN { "controlnet" } ELSE {})
    \cup (IF context.face_enhance THEN { "face-enhance" } ELSE {})
    \cup (IF context.reference_image \notin { None, "" } THEN { "style-transfer" } ELSE {})
    \cup (IF context.upscale_factor # 0 THEN { "upscaling" } ELSE {})

CapabilitySet(model_id) ==
    UNION { Range(DefaultModels[k].capabilities) :
              k \in { n \in DOMAIN DefaultModels : DefaultModels[n].model_id = model_id } }

\* C4: a submission whose control-type precondition holds is rejected with a
\* 400 if and only if its required capabilities are not a subset of the
\* model's, and the 400 names exactly the required capabilities the model
\* lacks.
C4_MissingCapabilities ==
    (http.op = "generate" /\ ToRegisteredModel /\ ~ControlImageAlone(http.context)) =>
        LET lacking == RequiredSet(http.context) \ CapabilitySet(http.model_id)
        IN  /\ http.code \in { 200, 400 }
            /\ http.code = 400 <=> lacking # {}
            /\ http.code = 400 =>
                 /\ http.detail = "Model missing required capabilities: "
                 /\ Range(http.missing) = lacking
                 /\ Len(http.missing) = Cardinality(lacking)

\* a rejection that names four capabilities
C4_Witness ==
    /\ http.op = "generate" /\ http.code = 400
    /\ Len(http.missing) = 4
    /\ ~ControlImageAlone(http.context)

\* C5: a submission that is rejected with a 400 leaves the job store as it
\* was, schedules no background task and issues no remote call.
C5_RejectionFrame ==
    [][ (http' # http /\ http'.op = "generate" /\ http'.code = 400) =>
          /\ GENERATION_RESPONSES' = GENERATION_RESPONSES
          /\ tasks' = tasks
          /\ issued' = issued ]_vars

\* a rejection for a missing capability while a job is in the store
C5_Witness ==
    /\ http.op = "generate" /\ http.code = 400 /\ http.missing # << >>
    /\ \E g \in DOMAIN GENERATION_RESPONSES : tasks[g].pc = "await_generate"

\* C6: every job the submission endpoint accepted eventually has a terminal
\* record, when its background task is run and every remote call it awaits
\* is answered.
C6_JobsTerminate ==
    \A j \in 1..MaxJobs :
        (j \in DOMAIN GENERATION_RESPONSES /\ GENERATION_RESPONSES[j].status = "processing")
        ~> (j \in DOMAIN GENERATION_RESPONSES /\ GENERATION_RESPONSES[j].status \in Terminal)

\* every accepted job has ended
C6_Witness ==
    /\ issued = MaxJobs
    /\ \A j \in DOMAIN tasks : tasks[j].origin = "generate" /\ tasks[j].pc = "done"
    /\ \A j \in DOMAIN tasks : GENERATION_RESPONSES[j].status \in Terminal

\* the run hit a failure that was not reconciled: one outside the
\* reinterpretation that did not start it, or one inside it
Unreconciled(t) ==
    \/ t.path = "normal" /\ t.failures # << >>
    \/ t.path = "reconcile" /\ Len(t.failures) >= 2

\* error_str holds the text of the failure msg, alone or after a prefix
HoldsFailure(error_str, msg) == error_str = msg \/ error_str.inner = << msg >>

\* C7: a run that hits a failure which is not reconciled has ended in the
\* same step (it returned, nothing escaped) and has written a record with
\* status error, no images and metadata.error holding the failure's text.
C7_FailureRecorded ==
    \A j \in DOMAIN tasks :
        Unreconciled(tasks[j]) =>
            /\ tasks[j].pc = "done"
            /\ j \in DOMAIN GENERATION_RESPONSES
            /\ GENERATION_RESPONSES[j].status = "error"
            /\ GENERATION_RESPONSES[j].images = << >>
            /\ HoldsFailure(GENERATION_RESPONSES[j].metadata.error,
                            tasks[j].failures[Len(tasks[j].failures)])

\* a reinterpretation that failed at a stage call of its second image
C7_Witness ==
    \E j \in DOMAIN tasks :
        /\ tasks[j].path = "reconcile" /\ Len(tasks[j].failures) = 2
        /\ tasks[j].i = 2 /\ Len(tasks[j].processed) = 1
        /\ tasks[j].faults # << >>
        /\ GENERATION_RESPONSES[j].status = "error"

\* the urls of the entries of an images list, in order
RECURSIVE UrlsOf(_)
UrlsOf(images) ==
    IF images = << >> THEN << >>
    ELSE (IF images[1].url # 0 THEN << images[1].url >> ELSE << >>) \o UrlsOf(Tail(images))

\* the text holds the literal "images": the handler searches for and is a
\* JSON object whose images field is a list of objects
WellFormedPayload(text) ==
    /\ text.literal /\ text.json = "dict" /\ text.shape = "list"
    /\ \A k \in DOMAIN text.images : text.images[k].kind = "dict"

C9_SuccessCompletes ==
    \A j \in DOMAIN tasks :
        LET t == tasks[j]
        IN  (/\ t.origin = "generate" /\ t.pc = "done"
             /\ t.reply = Reply("200", OkBody)
             /\ t.faults = << >>
             /\ t.context.image_format = "png"
             /\ http.op = "status" /\ http.generation_id = j
             /\ http.body = << GENERATION_RESPONSES[j] >>) =>
                /\ http.body[1].status = "completed"
                /\ Len(http.body[1].images) = t.context.batch_size

\* the stage calls issued for the i-th item of the run's loop, in order
RECURSIVE StageCalls(_, _)
StageCalls(calls, i) ==
    IF calls = << >> THEN << >>
    ELSE (IF calls[1].item = i /\ calls[1].op \in { "face-enhance", "upscale", "make-tileable" }
          THEN << calls[1].op >> ELSE << >>) \o StageCalls(Tail(calls), i)

\* C10: in a job that requests face-enhance, upscale with a factor above 1
\* and tiling, every image that is encoded went through exactly three stage
\* calls, in the order face-enhance, upscale, make-tileable.
C10_StageOrder ==
    \A j \in DOMAIN tasks :
        LET t == tasks[j]
        IN  (t.context.face_enhance /\ t.context.upscale_factor > 1 /\ t.context.tiling) =>
                \A i \in DOMAIN t.items :
                    (\E k \in DOMAIN t.processed :
                        t.items[i].url # 0 /\ t.processed[k].image.url = t.items[i].url) =>
                    StageCalls(t.calls, i) = << "face-enhance", "upscale", "make-tileable" >>

\* the answers of the provider to stage calls that were no success
StageFaults(t) ==
    SelectSeq(t.faults, LAMBDA f : f.pc \in { "await_face", "await_face_fetch",
                                               "await_upscale", "await_upscale_fetch" })

\* the remote calls issued for stages
IsStageCall(c) == c.op \in { "face-enhance", "face-fetch", "upscale", "upscale-fetch" }

\* C11: a job one of whose stage calls (face-enhance or upscale) failed,
\* whatever the failure's message, has ended in status error with no image,
\* the failed call is the last remote call the job issued, and the failure
\* was not reinterpreted: it is the last failure of the run and the error
\* record holds it.
C11_StageFailureIsFinal ==
    \A j \in DOMAIN tasks :
        LET t == tasks[j]
        IN  StageFaults(t) # << >> =>
                /\ Len(StageFaults(t)) = 1
                /\ t.pc = "done"
                /\ GENERATION_RESPONSES[j].status = "error"
                /\ GENERATION_RESPONSES[j].images = << >>
                /\ IsStageCall(t.calls[Len(t.calls)])
                /\ t.calls[Len(t.calls)].item = StageFaults(t)[1].item
                /\ t.faults[Len(t.faults)] = StageFaults(t)[1]
                /\ GENERATION_RESPONSES[j].metadata.error.inner
                     = << t.failures[Len(t.failures)] >>

\* the upscale call of a face-enhanced image failed with a text that carries
\* both markers, and the job ended in error
C11_Witness ==
    \E j \in DOMAIN tasks :
        /\ tasks[j].pc = "done"
        /\ StageFaults(tasks[j]) # << >>
        /\ StageFaults(tasks[j])[1].pc = "await_upscale"
        /\ StageFaults(tasks[j])[1].reply = "marked"
        /\ \E k \in DOMAIN tasks[j].calls : tasks[j].calls[k].op = "face-fetch"
        /\ GENERATION_RESPONSES[j].status = "error"

\* C12: a job that is completed holds at least as many images as the
\* payload it was served from listed urls: a url whose fetch returned a
\* status other than 200 fails the job instead of being left out.
C12_NoSilentDrop ==
    \A j \in DOMAIN GENERATION_RESPONSES :
        (GENERATION_RESPONSES[j].status = "completed" /\ tasks[j].path = "reconcile") =>
            /\ Len(GENERATION_RESPONSES[j].images) >= Len(UrlsOf(tasks[j].reply.text.images))
            /\ \A k \in DOMAIN tasks[j].faults : tasks[j].faults[k].reply # "non200"

\* the step is a read of generation_id through a registered model
IsRead(generation_id) ==
    /\ http' # http
    /\ http'.op = "status"
    /\ http'.generation_id = generation_id
    /\ \E k \in DOMAIN DefaultModels : DefaultModels[k].model_id = http'.model_id

\* C13: a read of a job identifier answers with the record stored for it at
\* that time, and answers 404 exactly when the identifier was never issued:
\* every identifier that was issued is found.
C13_ReadContract ==
    [][ \A g \in 1..MaxJobs :
          IsRead(g) =>
            /\ http'.code = 404 <=> g \notin 1..issued
            /\ http'.code # 404 =>
                 /\ http'.code = 200
                 /\ g \in DOMAIN GENERATION_RESPONSES
                 /\ http'.body = << GENERATION_RESPONSES[g] >> ]_vars

\* the last response is the answer to a read and nothing was written under
\* the identifier it read since
StillCurrent ==
    /\ http.op = "status"
    /\ \/ /\ http.code = 200
          /\ http.generation_id \in DOMAIN GENERATION_RESPONSES
          /\ http.body = << GENERATION_RESPONSES[http.generation_id] >>
       \/ /\ http.code = 404
          /\ http.generation_id \notin DOMAIN GENERATION_RESPONSES
       \/ http.code = 500

\* C14: a read changes neither the job store nor any run, and a read that
\* follows a read of the same identifier with no write to that identifier in
\* between gets the same answer.
C14_ReadIdempotent ==
    [][ /\ (http' # http /\ http'.op = "status") =>
              UNCHANGED <<GENERATION_RESPONSES, tasks, issued>>
        /\ (StillCurrent /\ http'.op = "status"
              /\ http'.generation_id = http.generation_id
              /\ http'.model_id = http.model_id) => http' = http ]_vars

\* a finished job was read and its record is what the read returned
C14_Witness ==
    /\ StillCurrent /\ http.code = 200
    /\ http.body[1].status \in Terminal
    /\ \E j \in DOMAIN tasks : tasks[j].pc \notin { "done", "scheduled" }

\* C15: every request that names a model identifier the registry does not
\* hold is answered with a 404, and GET /models/{id} of a registered
\* identifier answers with that model.
C15_UnknownModelNotFound ==
    /\ (http.op \in { "model", "generate", "status" }
          /\ ~\E k \in DOMAIN DefaultModels : DefaultModels[k].model_id = http.model_id)
         => http.code = 404
    /\ \A k \in DOMAIN DefaultModels :
         (http.op = "model" /\ http.model_id = DefaultModels[k].model_id)
           => (http.code = 200 /\ http.body = << DefaultModels[k] >>)

\* the call was a register of an identifier the registry held already
Conflicting == call.op = "register" /\ Registered(call.before, call.model[1].model_id)

\* C16: register(model) with an identifier that is already registered fails
\* with the conflict error and leaves the registry as it was; with a new
\* identifier it succeeds and adds the model at the end.
C16_RegisterContract ==
    call.op = "register" =>
        IF Conflicting
        THEN /\ call.raised = << "HTTPException 400: already registered" >>
             /\ models = call.before
        ELSE /\ call.raised = << >>
             /\ models = Append(call.before, call.model[1])

\* C17: a register call that hits a conflict runs its conflict check once
\* and raises the conflict error itself; no call makes more than 3 attempts.
C17_ConflictNotRetried ==
    /\ call.attempts <= StopAfterAttempt
    /\ Conflicting =>
         /\ call.attempts = 1
         /\ call.raised # << "RetryError" >>

\* what is stored under g, << >> when nothing is
Stored(store, g) == IF g \in DOMAIN store THEN << store[g] >> ELSE << >>

\* the keys of the job store a step writes
Written == { g \in 1..MaxJobs : Stored(GENERATION_RESPONSES', g) # Stored(GENERATION_RESPONSES, g) }

\* C18: every write to the job store is one of the two writes of one job:
\* the submitting call stores the processing record under the fresh key, and
\* later the job's own run, and no other, replaces that processing record
\* by the terminal one; a step writes one key at most.
C18_TwoWritesPerJob ==
    [][ /\ Cardinality(Written) <= 1
        /\ \A g \in Written :
             \/ /\ g \notin DOMAIN GENERATION_RESPONSES
                /\ g = issued' /\ issued' # issued
                /\ GENERATION_RESPONSES'[g].status = "processing"
                /\ tasks'[g].pc = "scheduled"
             \/ /\ g \in DOMAIN GENERATION_RESPONSES
                /\ GENERATION_RESPONSES[g].status = "processing"
                /\ GENERATION_RESPONSES'[g].status \in Terminal
                /\ tasks[g].pc # "done" /\ tasks'[g].pc = "done"
                /\ \A h \in DOMAIN tasks : h # g => tasks'[h] = tasks[h] ]_vars

\* C19: whatever entry point started it, a job has a record from the moment
\* its identifier is drawn, and that record says processing until the run
\* of the job has ended.
C19_ProcessingFirst ==
    \A j \in DOMAIN tasks :
        /\ j \in DOMAIN GENERATION_RESPONSES
        /\ tasks[j].pc # "done" => GENERATION_RESPONSES[j].status = "processing"

\* C20: a request to POST /upscale/ whose upscale_factor is 1 or absent is
\* answered with a 400 in the step that handles it; that step starts no
\* run, draws no identifier and writes nothing, and no run of the upscale
\* entry point ever carries such a factor.
C20_UpscaleFactorRequired ==
    [][ /\ (http' # http /\ http'.op = "upscale" /\ http'.context.upscale_factor <= 1) =>
              /\ http'.code = 400
              /\ UNCHANGED <<GENERATION_RESPONSES, tasks, issued>>
        /\ \A j \in DOMAIN tasks' :
              tasks'[j].origin = "upscale" => tasks'[j].context.upscale_factor > 1 ]_vars

\* a request with a control image and factor 1 was turned down for its
\* factor while another request's run was waiting for the provider
C20_Witness ==
    /\ http.op = "upscale" /\ http.code = 400
    /\ http.detail = "upscale_factor must be greater than 1"
    /\ http.context.upscale_factor = 1
    /\ \E j \in DOMAIN tasks : tasks[j].pc = "await_generate"

\* C21: every answer of POST /inpainting/ is a 400, the request with a
\* control image and no mask image included, and the step that answers
\* starts no run.
C21_InpaintingPreconditions ==
    [][ (http' # http /\ http'.op = "inpainting") =>
            /\ http'.code = 400
            /\ UNCHANGED <<GENERATION_RESPONSES, tasks, issued>> ]_vars

\* the calls of service methods that are in flight or have ended: the one
\* made for an endpoint and the ones of the WebSocket handlers
Invocations == { scrape } \cup { sockets[c].op : c \in DOMAIN sockets }

AllFailed(o, n) == \A k \in 1..n : o.answers[k] = "raise"

\* C22: a call of search makes at most three provider calls, and makes
\* another one only after a failed one; while fewer than three have failed
\* it goes on calling, it returns what the first attempt that did not fail
\* produced, and it raises only when three attempts in a row have failed.
C22_SearchRetried ==
    \A o \in Invocations :
        o.name = "search" =>
            /\ o.attempts <= ScraperStopAfterAttempt
            /\ Len(o.answers) = o.attempts
            /\ AllFailed(o, o.attempts - 1)
            /\ o.pc \in { "calling", "returned", "raised" }
            /\ o.pc = "calling" =>
                  AllFailed(o, o.attempts) /\ o.attempts < ScraperStopAfterAttempt
            /\ o.pc = "returned" =>
                  /\ o.answers[o.attempts] # "raise"
                  /\ o.value = SearchBody(o.answers[o.attempts]).value
            /\ o.pc = "raised" =>
                  /\ o.attempts = ScraperStopAfterAttempt
                  /\ AllFailed(o, o.attempts)
                  /\ o.raised = << RetryErrorText >>

\* the search endpoint answered 200 with a result that the third provider
\* call produced, the first two having failed
C22_Witness ==
    /\ scrape.name = "search" /\ scrape.pc = "returned"
    /\ scrape.answers = << "raise", "raise", "completed" >>
    /\ http.op = "search" /\ http.code = 200 /\ http.body = scrape.value
    /\ scrape.value # << >>

\* C23: summarize and analyze_sentiment are retried like search: a call of
\* either raises only when three attempts have failed, so that a failure of
\* the first attempt alone never reaches the caller.
C23_SummarizeRetried ==
    \A o \in Invocations :
        (o.name \in { "summarize", "analyze_sentiment" } /\ o.pc = "raised") =>
            o.attempts = ScraperStopAfterAttempt

\* the provider failed the call that extract_content or markdownify made for
\* the page itself
RemoteFailure(o) ==
    /\ o.name \in { "extract_content", "markdownify" }
    /\ o.answers # << >>
    /\ o.answers[1] = "raise"

\* C24: extract_content and markdownify never raise, whatever the provider
\* does; when the provider's call raises, the method returns one result for
\* the url it was called with, whose status is partial or fallback (failed
\* when the provider's response cannot be read), never completed, together
\* with the error text; its content is empty for extract_content and what
\* the fallback extraction produced for markdownify.
C24_GracefulDegradation ==
    \A o \in Invocations :
        o.name \in { "extract_content", "markdownify" } =>
            /\ o.pc # "raised"
            /\ o.attempts <= 1
            /\ (o.pc = "returned" /\ RemoteFailure(o)) =>
                  /\ Len(o.value) = 1
                  /\ o.value[1].url = o.url
                  /\ o.value[1].error = ProviderError
                  /\ o.value[1].status =
                        IF o.name = "extract_content" THEN "partial" ELSE "fallback"
                  /\ o.name = "extract_content" => o.value[1].content = ""
                  /\ o.name = "markdownify" =>
                        o.value[1].content = ExtractBody(o.url, o.answers[2]).value[1].content
            /\ (o.pc = "returned" /\ o.answers[1] = "malformed") =>
                  /\ o.value[1].url = o.url
                  /\ o.value[1].status = "failed"
                  /\ o.value[1].content = ""
                  /\ o.value[1].error = NoneTypeGet

\* markdownify returned the fallback result for its url after the provider
\* failed both its call and the extraction it fell back to
C24_Witness ==
    /\ scrape.name = "markdownify" /\ scrape.pc = "returned"
    /\ scrape.answers = << "raise", "raise" >>
    /\ scrape.value[1].status = "fallback"
    /\ scrape.value[1].content = ""
    /\ scrape.value[1].url = scrape.url

\* the credential is absent, or the provider's client refuses it
Unusable == ~Truthy(env.SGAI_API_KEY) \/ env.client = "raise"

\* C25: with a credential that is absent or refused, the constructor of the
\* service raises and scrape_service is None from then on; no service method
\* is ever called, every answer of a scraping endpoint is a 500 that carries
\* the failed attribute lookup, and a WebSocket handler answers every
\* scraping context it reads with started and then an error, and goes on
\* reading.
C25_UnavailableSentinel ==
    Unusable =>
        /\ ServiceInit(env.SGAI_API_KEY, env.client).raised # << >>
        /\ scrape_service = None
        /\ \A o \in Invocations : o = NoInvocation
        /\ http.op \in Endpoints =>
              http.code = 500 /\ http.detail = NoneTypeAttribute(http.op)
        /\ \A c \in DOMAIN sockets :
              /\ sockets[c].got = "context" => sockets[c].pc \in { "receive", "broadcast", "done" }
              /\ (sockets[c].got = "context" /\ sockets[c].state = "open") =>
                    sockets[c].out = << Started, ErrorMessage(NoneTypeAttribute("search")) >>

\* the provider's client refused the key; since then the summarize endpoint
\* has answered 500 and a WebSocket client has been sent started and an error
C25_Witness ==
    /\ env.SGAI_API_KEY = "sgai-key" /\ env.client = "raise"
    /\ scrape_service = None
    /\ http.op = "summarize" /\ http.code = 500
    /\ \E c \in DOMAIN sockets :
          /\ sockets[c].pc = "receive" /\ sockets[c].state = "open"
          /\ sockets[c].out = << Started, ErrorMessage(NoneTypeAttribute("search")) >>

\* the handler of c has dealt with the last message it read, and c's
\* client is still there to have seen the answer
Answered(c) ==
    /\ sockets[c].got # "none"
    /\ sockets[c].pc \in { "receive", "crashed" }
    /\ sockets[c].state # "closed"

\* C26: when a handler has dealt with a message of its client, it has sent
\* that client started and then exactly one result or error, and nothing
\* else, since it read the message.
C26_StartedThenOutcome ==
    \A c \in DOMAIN sockets :
        Answered(c) =>
            /\ Len(sockets[c].out) = 2
            /\ sockets[c].out[1] = Started
            /\ sockets[c].out[2].type \in { "result", "error" }

\* the handler of c ends the broadcast of c's disconnect in this step
BroadcastEnds(c) ==
    /\ sockets[c].pc \notin { "done", "failed" }
    /\ sockets'[c].pc \in { "done", "failed" }

\* C27: when the broadcast that follows the disconnect of a client ends, the
\* client is no longer listed, every connection that was listed when it was
\* removed and is still listed and open has been sent its notice, and the
\* client itself has not.
C27_DisconnectNotice ==
    [][ \A c \in DOMAIN sockets :
            BroadcastEnds(c) =>
                /\ c \notin Range(active_connections')
                /\ c \notin sockets'[c].notices
                /\ \A d \in sockets'[c].audience :
                      (d \in Range(active_connections') /\ sockets'[d].state = "open") =>
                          c \in sockets'[d].notices ]_vars

\* the base generation call of the run failed with a message that carries
\* both literals the handler looks for
Reinterpreted(t) ==
    /\ t.reply.status = "non200"
    /\ HasFailedMarker(t.failures[1])
    /\ HasImagesLiteral(t.failures[1])

\* C28: a job whose base generation failure carries both markers is
\* reinterpreted, and it ends in status error exactly when the
\* reinterpretation raised an exception of its own (a fetch answered with a
\* status other than 200 raises none); the error record then holds the
\* prefix "Failed to parse successful response: " and the text of that
\* exception, not the message of the base generation call.  Otherwise the
\* job ends completed.
C28_ReinterpretationDecides ==
    \A j \in DOMAIN tasks :
        LET t == tasks[j]
            record == GENERATION_RESPONSES[j]
        IN  (t.pc = "done" /\ Reinterpreted(t)) =>
                /\ t.path = "reconcile"
                /\ record.status \in { "completed", "error" }
                /\ record.status = "error" <=> Len(t.failures) = 2
                /\ record.status = "completed" <=> Len(t.failures) = 1
                /\ record.status = "error" =>
                      /\ record.metadata.error.head = "Failed to parse successful response: "
                      /\ record.metadata.error.inner = << t.failures[2] >>
                      /\ record.metadata.error # t.failures[1]

\* the fetch of the second image of a payload raised after the first image
\* had been processed, and the job ended in error with that exception's text
C28_Witness ==
    \E j \in DOMAIN tasks :
        /\ tasks[j].pc = "done" /\ Reinterpreted(tasks[j])
        /\ tasks[j].i = 2 /\ Len(tasks[j].processed) = 1
        /\ tasks[j].faults # << >>
        /\ tasks[j].faults[Len(tasks[j].faults)].pc = "await_fetch"
        /\ tasks[j].faults[Len(tasks[j].faults)].reply = "raise"
        /\ GENERATION_RESPONSES[j].status = "error"
        /\ GENERATION_RESPONSES[j].metadata.error = ParseFailure(TransportError)

\* C29: every face-enhance call a run has issued or is waiting in belongs to
\* a request with face_enhance set, and every upscale call to a request
\* whose upscale_factor is greater than 1, on the normal path and on the
\* reconciliation path; an image of a completed job carries only the stages
\* the request asked for.
C29_StagesOnRequest ==
    \A j \in DOMAIN tasks :
        LET t == tasks[j]
        IN  /\ \A k \in DOMAIN t.calls :
                  /\ t.calls[k].op \in { "face-enhance", "face-fetch" } =>
                        t.context.face_enhance
                  /\ t.calls[k].op \in { "upscale", "upscale-fetch" } =>
                        t.context.upscale_factor > 1
            /\ t.pc \in { "await_face", "await_face_fetch" } => t.context.face_enhance
            /\ t.pc \in { "await_upscale", "await_upscale_fetch" } =>
                  t.context.upscale_factor > 1
            /\ \A k \in DOMAIN t.processed :
                  t.processed[k].image.ops =
                      (IF t.context.face_enhance THEN << "face-enhance" >> ELSE << >>)
                      \o (IF t.context.upscale_factor > 1 THEN << "upscale" >> ELSE << >>)

\* a reconciled job whose request set face_enhance and an upscale_factor of 1
\* completed with an image that was face-enhanced and not upscaled
C29_Witness ==
    \E j \in DOMAIN tasks :
        /\ tasks[j].pc = "done" /\ tasks[j].path = "reconcile"
        /\ tasks[j].context.face_enhance /\ tasks[j].context.upscale_factor = 1
        /\ GENERATION_RESPONSES[j].status = "completed"
        /\ Len(GENERATION_RESPONSES[j].images) >= 1
        /\ GENERATION_RESPONSES[j].images[1].image.ops = << "face-enhance" >>
        /\ \E k \in DOMAIN tasks[j].calls : tasks[j].calls[k].op = "face-enhance"
        /\ \A k \in DOMAIN tasks[j].calls : tasks[j].calls[k].op # "upscale"

\* C30: building a registry registers each built-in model once, at the
\* first attempt, and yields sd-v1-5 and flux-pro-1.1 in that order; every
\* answer of GET /models is a 200 with exactly these two in this order,
\* whatever happened before, and no step that answers a request changes a
\* registry.
C30_CatalogFixed ==
    [][ /\ Retry(<< >>, DefaultModels[1], 1).attempts = 1
        /\ Retry(<< DefaultModels[1] >>, DefaultModels[2], 1).attempts = 1
        /\ LoadDefaultModels = DefaultModels
        /\ (http' # http /\ http'.op = "models") =>
              /\ http'.code = 200
              /\ Len(http'.body) = 2
              /\ http'.body[1].model_id = "sd-v1-5"
              /\ http'.body[2].model_id = "flux-pro-1.1"
              /\ http'.body = DefaultModels
        /\ http' # http => models' = models ]_vars

\* GET /models answered with the two built-in models after a third model
\* had been registered with, and a built-in one removed from, a registry
\* object
C30_Witness ==
    /\ http.op = "models" /\ http.code = 200 /\ http.body = DefaultModels
    /\ Registered(models, "custom-a")
    /\ ~Registered(models, "sd-v1-5")

\* C31: no run, whatever entry point started it, works on a request that
\* carries a control image and no control type.
C31_NoRunWithoutControlType ==
    \A j \in DOMAIN tasks : ~ControlImageAlone(tasks[j].context)

\* C32: whenever a request supplies a seed, every record stored for its job
\* that was not built from an embedded payload (processing, completed, error)
\* carries that seed in metadata.seed, and carries "random" only when the
\* request supplied none.
C32_SeedEchoed ==
    \A j \in DOMAIN tasks \cap DOMAIN GENERATION_RESPONSES :
        LET t == tasks[j]
            r == GENERATION_RESPONSES[j]
        IN  ~(r.status = "completed" /\ t.path = "reconcile")
              => r.metadata.seed = (IF t.context.seed = None THEN "random"
                                                             ELSE t.context.seed)

\* the handler of c leaves its loop over the search results in this step,
\* after the provider served the extraction of a result, with its client
\* still there
ExtractionServed(c) ==
    /\ sockets[c].pc = "extract"
    /\ sockets'[c].pc = "receive"
    /\ sockets'[c].op.answers = << "completed" >>
    /\ sockets'[c].state = "open"

\* C33: when the search returned a result and its extraction succeeded, the
\* handler answers the request with a result message, not an error message.
C33_ResultForEveryHit ==
    [][ \A c \in DOMAIN sockets :
            ExtractionServed(c) =>
                /\ Len(sockets'[c].out) = Len(sockets[c].out) + 1
                /\ sockets'[c].out[Len(sockets'[c].out)].type = "result" ]_vars

\* the handler of c has ended: by an exception that left it, or after the
\* broadcast of its client's disconnect
HandlerEnded(c) == sockets[c].pc \in { "crashed", "failed", "done" }

\* C34: the connections listed as active are connections whose handler is
\* still running; a handler that has ended, for whatever reason, has left
\* the list.
C34_ListedMeansRunning ==
    \A c \in DOMAIN sockets :
        HandlerEnded(c) => c \notin Range(active_connections)

\* C35: every record of the job store is well formed in every reachable
\* state: its id is the key it is stored under, its status is processing,
\* completed or error, metadata.status is "queued" exactly when the status is
\* processing and the status itself otherwise, it has images only when
\* completed, and metadata has an error entry exactly when the status is error.
C35_WellFormedRecords ==
    \A g \in DOMAIN GENERATION_RESPONSES :
        LET r == GENERATION_RESPONSES[g]
        IN  /\ r.id = g
            /\ r.status \in { "processing", "completed", "error" }
            /\ r.metadata.status = (IF r.status = "processing" THEN "queued" ELSE r.status)
            /\ r.images # << >> => r.status = "completed"
            /\ "error" \in DOMAIN r.metadata <=> r.status = "error"

\* the store holds a completed record with an image beside an error record
C35_Witness ==
    \E g, h \in DOMAIN GENERATION_RESPONSES :
        /\ GENERATION_RESPONSES[h].status = "error"
        /\ GENERATION_RESPONSES[g].status = "completed"
        /\ GENERATION_RESPONSES[g].images # << >>

\* the positions of the payload entries whose fetch answered another status
\* than 200
Refused(t) ==
    { f.item : f \in { x \in Range(t.faults) : x.pc = "await_fetch" /\ x.reply = "non200" } }

\* the urls of the entries from position k on that have a url and are not
\* among the skipped positions, in payload order
RECURSIVE ServedUrls(_, _, _)
ServedUrls(images, skipped, k) ==
    IF k > Len(images) THEN << >>
    ELSE (IF images[k].url # 0 /\ k \notin skipped THEN << images[k].url >> ELSE << >>)
           \o ServedUrls(images, skipped, k + 1)

\* nothing the provider answered made a fetch or a stage of the run raise:
\* the only answers that were no success are fetches of payload images that
\* returned another status than 200
NothingRaised(t) ==
    \A k \in DOMAIN t.faults :
        t.faults[k].pc = "await_fetch" /\ t.faults[k].reply = "non200"

C37_StoredIdsReturned ==
    [][ \A g \in DOMAIN GENERATION_RESPONSES' \ DOMAIN GENERATION_RESPONSES :
            /\ http'.code = 200
            /\ http'.body # << >>
            /\ http'.body[1].id = g ]_vars

\* the job g was started by the generate_flux_image tool
ToolJob(g) == g \in DOMAIN tasks /\ tasks[g].origin = "generate_flux_image"

\* C38: the generate_flux_image tool answers after the whole pipeline: when
\* it has returned an id, the record stored for that id is completed or
\* error, and get_generation_result never reports processing for the id of
\* such a job; for an id that has no record get_generation_result returns
\* the status value not_found and does not raise.
C38_ToolAwaitsPipeline ==
    /\ (http.op = "generate_flux_image" /\ http.code = 200) =>
           /\ http.detail = "processing"
           /\ http.generation_id \in DOMAIN GENERATION_RESPONSES
           /\ GENERATION_RESPONSES[http.generation_id].status \in Terminal
    /\ \A g \in DOMAIN GENERATION_RESPONSES :
           ToolJob(g) => GENERATION_RESPONSES[g].status \in Terminal
    /\ http.op = "get_generation_result" =>
           /\ http.code = 200
           /\ ToolJob(http.generation_id) => http.detail # "processing"
           /\ http.generation_id \notin DOMAIN GENERATION_RESPONSES =>
                 http.detail = "not_found"
           /\ http.body = << >> <=> http.detail = "not_found"

\* the tool has answered with the id of a job that ended in error while a
\* job submitted over HTTP is still processing
C38_Witness ==
    /\ http.op = "generate_flux_image" /\ http.code = 200
    /\ GENERATION_RESPONSES[http.generation_id].status = "error"
    /\ \E g \in DOMAIN GENERATION_RESPONSES : GENERATION_RESPONSES[g].status = "processing"

\* C39: a call of extract_content or markdownify runs its body once and
\* calls its own provider operation once, since nothing it does raises; when
\* the provider fails markdownify's call, markdownify calls extract_content
\* once, and what it returns then has status "fallback", also when that
\* extraction failed too.
C39_SingleProviderCall ==
    \A o \in Invocations :
        o.name \in { "extract_content", "markdownify" } =>
            /\ o.attempts <= 1
            /\ o.pc # "raised"
            /\ o.pc = "returned" => o.attempts = 1
            /\ o.name = "extract_content" => Len(o.answers) = o.attempts
            /\ o.name = "markdownify" =>
                  /\ Len(o.answers) <= 2
                  /\ Len(o.answers) = 2 => o.answers[1] = "raise"
                  /\ (o.pc = "returned" /\ o.answers[1] = "raise") =>
                        /\ Len(o.answers) = 2
                        /\ o.value[1].status = "fallback"
                        /\ o.value[1].source = "fallback"

\* markdownify returned after the provider failed its call and answered the
\* extraction it fell back to with a response that could not be read
C39_Witness ==
    /\ scrape.name = "markdownify" /\ scrape.pc = "returned"
    /\ scrape.attempts = 1
    /\ scrape.answers = << "raise", "malformed" >>
    /\ ExtractBody(scrape.url, "malformed").value[1].status = "failed"
    /\ scrape.value[1].status = "fallback"

====
